---------------------------- MODULE Spec2Model ----------------------------
(***************************************************************************)
(* Pipeline orchestration of MultiAgentOrchestrator                         *)
(* (src/src/utils/config.ts): the fixed-pipeline executor executePipeline,  *)
(* its memory-enabled variant executePipelineWithMemory and the dynamic     *)
(* executeIntelligentOrchestration, the memory pruner pruneAgentMemories,    *)
(* the queries analyzeMemoriesForPipeline, getAvailablePipelines and        *)
(* analyzeWorkflowChoice, and the scoring function                          *)
(* calculateMemoryRelevance, run against an abstract completion service     *)
(* (EnhancedGrokApiClient.chat) that either resolves with a text or         *)
(* rejects.                                                                 *)
(*                                                                         *)
(* Every await of the source is a suspension point: an action runs the      *)
(* code from one await to the next.  The variables hold the locals of one   *)
(* call of an entry point; in SpecRuns further calls are made on the same   *)
(* orchestrator, one after another or while earlier calls are suspended,    *)
(* and share the registry, the memory store and the clock.                  *)
(*                                                                         *)
(* Texts.  A response of the service is [n |-> k, body |-> c, run |-> r]:   *)
(* k is the number of the completion call of call r that produced it (so    *)
(* two responses are never equal), c is the class of its content that the   *)
(* code can tell apart.  Fixed strings of the source are                    *)
(* [n |-> 0, body |-> string].                                              *)
(***************************************************************************)
EXTENDS Integers, Sequences, FiniteSets, TLC

VARIABLES
    pipelines,      \* this.pipelines: id -> AgentPipeline
    memoryStore,    \* this.memoryStore: entries key, AgentMemory[] in insertion order
    clock,          \* the value Date.now() returns
    op,             \* the entry point called and its arguments
    pc,             \* position of the call: the await it is suspended at
    i,              \* loop index of the step loop (1-based)
    context,        \* AgentContext of the run
    executionLog,   \* executionLog of the run
    agentMemories,  \* agentMemories of the run, in Map insertion order
    workflowPlan,   \* executeIntelligentOrchestration: workflowPlan
    interpretation, \* executeIntelligentOrchestration: interpretation
    agentCall,      \* executeSingleAgent: who awaits it, role, instructions
    ret,            \* what the call gave its caller
    chatCalls,      \* every apiClient.chat call issued, with its outcome
    me,             \* the call whose locals the variables above hold
    runs            \* the locals of the other calls on this orchestrator

vars == << pipelines, memoryStore, clock, op, pc, i, context, executionLog,
           agentMemories, workflowPlan, interpretation, agentCall, ret,
           chatCalls, me, runs >>

-----------------------------------------------------------------------------
(* Bounds of the model *)

\* Date.now() takes values 0..MaxClock
MaxClock == 1

-----------------------------------------------------------------------------
(* Values *)

NoKey == ""

EmptyMap == [k \in {} |-> 0]

Put(m, k, v) == [x \in (DOMAIN m) \cup {k} |-> IF x = k THEN v ELSE m[x]]

Has(m, k) == k \in DOMAIN m

FixedText(s) == [n |-> 0, body |-> s]

NoText == FixedText("")

\* `a || b` of the source on strings: a unless a is absent or empty
OrElse(present, a, b) == IF present /\ a # NoText THEN a ELSE b

\* error.message of the Error that chat throws
ApiError == "Failed to communicate with Grok API"

Prompts == {"review this module for complexity"}


-----------------------------------------------------------------------------
(* The pipeline registry *)

Step(role, outputKey, reads) == [role |-> role, outputKey |-> outputKey, reads |-> reads]

\* reads: the results keys the step's inputMap looks up
createCodeDevelopmentSteps ==
    << Step("interpreter", "interpretation", {}),
       Step("analysis", "analysis", {"interpretation"}),
       Step("retrieval", "code_segments", {"analysis"}),
       Step("judge", "judgment", {"code_segments"}),
       Step("coder", "generated_code",
            {"interpretation", "analysis", "code_segments", "judgment"}),
       Step("quality-check", "quality_assessment", {"generated_code"}),
       Step("supervisor", "final_summary", {"generated_code"}) >>

createAnalysisSteps ==
    << Step("analyzer", "analysis", {}) >>

Pipeline(id, enabled, steps) == [id |-> id, enabled |-> enabled, steps |-> steps]

\* the registry the constructor builds
initializePipelines ==
    [id \in {"code-development", "analysis-only"} |->
        IF id = "code-development"
        THEN Pipeline(id, TRUE, createCodeDevelopmentSteps)
        ELSE Pipeline(id, TRUE, createAnalysisSteps)]

\* A registry holding further AgentPipeline values (types: AgentPipeline,
\* AgentStep): a disabled pipeline, a pipeline whose supervisor step is not
\* the last one, and a pipeline with a step that declares no outputKey.
\* The executors are written for any registry content.
AnyPipelines ==
    [id \in {"analysis-only", "disabled", "supervised", "keyless"} |->
        CASE id = "analysis-only" -> Pipeline(id, TRUE, createAnalysisSteps)
          [] id = "disabled" -> Pipeline(id, FALSE, createAnalysisSteps)
          [] id = "supervised" ->
                Pipeline(id, TRUE,
                    << Step("coder", "generated_code", {}),
                       Step("supervisor", "final_summary", {"generated_code"}),
                       Step("judge", "judgment", {"generated_code"}) >>)
          [] OTHER ->
                Pipeline(id, TRUE,
                    << Step("analyzer", NoKey, {}),
                       Step("coder", "generated_code", {}) >>)]

\* ids a caller may pass: the registered ones and one that is not registered
PipelineIds == (DOMAIN pipelines) \cup {"unknown"}

PipelineFoundIgnoringEnabled(pipelineId) == pipelineId \in DOMAIN pipelines

\* `!pipeline || !pipeline.enabled` is false
PipelineFound(pipelineId) ==
    /\ pipelineId \in DOMAIN pipelines
    /\ pipelines[pipelineId].enabled

NotFoundError(pipelineId) == [status |-> "thrown", error |-> "not found or disabled", pipelineId |-> pipelineId]

\* getAvailablePipelines
getAvailablePipelines == {pipelines[id] : id \in {x \in DOMAIN pipelines : pipelines[x].enabled}}

-----------------------------------------------------------------------------
(* AgentContext and PipelineResult *)

NewContext(userPrompt, maxSteps) ==
    [userPrompt |-> userPrompt, results |-> EmptyMap, errors |-> << >>,
     stepCount |-> 0, maxSteps |-> maxSteps]

NoContext == [userPrompt |-> "", results |-> EmptyMap, errors |-> << >>,
              stepCount |-> 0, maxSteps |-> 0]

\* errorMsg of the catch blocks of the step loops
StepFailedMsg(role) == [t |-> "Step failed", role |-> role, message |-> ApiError]

\* log lines
LogExecuting(k, n, role) == [t |-> "Executing step", step |-> k, of |-> n, role |-> role]

LogCompleted(role) == [t |-> "Step completed successfully", role |-> role]

LogError(msg) == [t |-> "ERROR", msg |-> msg]

LogMemoryGenerated(role) == [t |-> "Memory generated", role |-> role]

LogMemoryFailedAsError(role, why) == LogError(StepFailedMsg(role))

LogMemoryFailed(role, why) == [t |-> "Memory generation failed", role |-> role, why |-> why]

StoreResultOnce(results, outputKey, response) ==
    IF outputKey # NoKey /\ DOMAIN results = {} THEN Put(results, outputKey, response) ELSE results

StoreResultAnyKey(results, outputKey, response) == Put(results, outputKey, response)

\* `if (step.outputKey) context.results.set(step.outputKey, response)`
StoreResult(results, outputKey, response) ==
    IF outputKey # NoKey THEN Put(results, outputKey, response) ELSE results

HaltsPipelineOnAnyFailure(role) == TRUE

HaltsPipelineNever(role) == FALSE

\* the catch block's `if (step.role === 'supervisor') break`
HaltsPipeline(role) == role = "supervisor"

PipelineSuccessOffByOne(ctx) == Len(ctx.errors) <= 1

\* success of executePipeline and executePipelineWithMemory
PipelineSuccess(ctx) == Len(ctx.errors) = 0

PipelineFinalResultCodeFirst(results) ==
    IF Has(results, "generated_code") THEN results["generated_code"]
    ELSE IF Has(results, "final_summary") THEN results["final_summary"]
    ELSE FixedText("Pipeline completed")

\* finalResult of executePipeline and executePipelineWithMemory
PipelineFinalResult(results) ==
    OrElse(Has(results, "final_summary"),
           IF Has(results, "final_summary") THEN results["final_summary"] ELSE NoText,
           OrElse(Has(results, "generated_code"),
                  IF Has(results, "generated_code") THEN results["generated_code"] ELSE NoText,
                  FixedText("Pipeline completed")))

NoMemories == << >>

PipelineResult(success, finalResult, ctx, log, hasMemories, memories) ==
    [status |-> "returned", success |-> success, finalResult |-> finalResult,
     context |-> ctx, executionLog |-> log,
     hasAgentMemories |-> hasMemories, agentMemories |-> memories]

Pending == [status |-> "pending"]

-----------------------------------------------------------------------------
(* The completion service: apiClient.chat *)

\* a chat call that has been issued and has not resolved
IssuedCall(purpose, role, step, input) ==
    [purpose |-> purpose, role |-> role, step |-> step, input |-> input,
     outcome |-> "pending", response |-> NoText]

\* step.inputMap(context): the prompt, as the value found under each key read
InputMap(step, ctx) ==
    [k \in step.reads |-> IF Has(ctx.results, k) THEN ctx.results[k] ELSE NoText]

\* the prompt of generateAgentMemory: the role's work output
MemoryPrompt(role, output) == [role |-> role, output |-> output]

\* the response text of the call now outstanding, with content class body;
\* responses given to different calls on the orchestrator differ
Response(body) == [n |-> Len(chatCalls), body |-> body, run |-> me]

\* chatCalls with the outstanding (last) call resolved
Resolved(response) ==
    [chatCalls EXCEPT ![Len(chatCalls)] =
        [@ EXCEPT !.outcome = "ok", !.response = response]]

Rejected ==
    [chatCalls EXCEPT ![Len(chatCalls)] = [@ EXCEPT !.outcome = "failed"]]

\* content classes of a step's response; the step loops do not inspect it
StepBodies == {"text"}

-----------------------------------------------------------------------------
(* executePipeline *)

Steps == pipelines[op.pipelineId].steps

\* what executePipeline returns
ExecuteReturn(ctx, log) ==
    PipelineResult(PipelineSuccess(ctx), PipelineFinalResult(ctx.results),
                   ctx, log, FALSE, NoMemories)

\* The head of the step loop over steps at index k: the loop is over and
\* the call returns, or step k starts and runs up to its chat call.
ExecuteLoop(steps, k, ctx, log, calls) ==
    IF k > Len(steps)
    THEN /\ pc' = "done"
         /\ ret' = ExecuteReturn(ctx, log)
         /\ context' = ctx
         /\ executionLog' = log
         /\ chatCalls' = calls
         /\ i' = i
    ELSE /\ pc' = "chat"
         /\ ret' = ret
         /\ context' = [ctx EXCEPT !.stepCount = k]
         /\ executionLog' = Append(log, LogExecuting(k, Len(steps), steps[k].role))
         /\ chatCalls' = Append(calls, IssuedCall("step", steps[k].role, k, InputMap(steps[k], ctx)))
         /\ i' = k

\* the loop is left by `break`
ExecuteBreak(ctx, log, calls) ==
    /\ pc' = "done"
    /\ ret' = ExecuteReturn(ctx, log)
    /\ context' = ctx
    /\ executionLog' = log
    /\ chatCalls' = calls
    /\ i' = i

\* executePipeline(pipelineId, userPrompt) is called: the lookup throws, or
\* the context is built and the loop runs to the first chat call
ExecutePipeline(pipelineId, userPrompt) ==
    /\ pc = "idle"
    /\ op' = [name |-> "executePipeline", pipelineId |-> pipelineId, userPrompt |-> userPrompt]
    /\ IF ~PipelineFound(pipelineId)
       THEN /\ pc' = "done"
            /\ ret' = NotFoundError(pipelineId)
            /\ UNCHANGED << context, executionLog, chatCalls, i >>
       ELSE ExecuteLoop(pipelines[pipelineId].steps, 1,
                        NewContext(userPrompt, Len(pipelines[pipelineId].steps)),
                        << >>, chatCalls)
    /\ UNCHANGED << pipelines, me, runs, memoryStore, clock, agentMemories, workflowPlan,
                    interpretation, agentCall >>

\* the chat call of step i resolves with a response: the try block runs on
\* to the delay
ExecuteChatResolved(body) ==
    /\ pc = "chat"
    /\ op.name = "executePipeline"
    /\ LET response == Response(body)
       IN  /\ context' = [context EXCEPT
                  !.results = StoreResult(@, Steps[i].outputKey, response)]
           /\ executionLog' = Append(executionLog, LogCompleted(Steps[i].role))
           /\ chatCalls' = Resolved(response)
    /\ pc' = "delay"
    /\ UNCHANGED << pipelines, me, runs, memoryStore, clock, op, i, agentMemories,
                    workflowPlan, interpretation, agentCall, ret >>

\* the chat call of step i rejects: the catch block, then the next
\* iteration or the break
ExecuteChatFailed ==
    /\ pc = "chat"
    /\ op.name = "executePipeline"
    /\ LET errorMsg == StepFailedMsg(Steps[i].role)
           ctx == [context EXCEPT !.errors = Append(@, errorMsg)]
           log == Append(executionLog, LogError(errorMsg))
       IN  IF HaltsPipeline(Steps[i].role)
           THEN ExecuteBreak(ctx, log, Rejected)
           ELSE ExecuteLoop(Steps, i + 1, ctx, log, Rejected)
    /\ UNCHANGED << pipelines, me, runs, memoryStore, clock, op, agentMemories,
                    workflowPlan, interpretation, agentCall >>

\* the 500 ms delay after a successful step is over
ExecuteDelayElapsed ==
    /\ pc = "delay"
    /\ op.name = "executePipeline"
    /\ ExecuteLoop(Steps, i + 1, context, executionLog, chatCalls)
    /\ UNCHANGED << pipelines, me, runs, memoryStore, clock, op, agentMemories,
                    workflowPlan, interpretation, agentCall >>

-----------------------------------------------------------------------------
(* generateAgentMemory *)

\* content classes of the memory agent's response
MemoryBodies == {"json", "not json"}

\* JSON.parse(response.split('```json')[1]?.split('```')[0] || response)
\* does not throw
ParsesAsJson(response) == response.body = "json"

getMemoryTypeForRole(agentRole) ==
    CASE agentRole = "interpreter" -> "requirements-analysis"
      [] agentRole = "analysis" -> "codebase-analysis"
      [] agentRole = "retrieval" -> "code-snippets"
      [] agentRole = "judge" -> "quality-assessment"
      [] agentRole = "coder" -> "implementation-patterns"
      [] agentRole = "quality-judge" -> "testing-insights"
      [] agentRole = "supervisor" -> "pipeline-optimization"
      [] OTHER -> "general-experience"

\* the AgentMemory generateAgentMemory returns for a parsed response
AgentMemory(agentRole, response) ==
    [agentRole |-> agentRole, memoryType |-> getMemoryTypeForRole(agentRole),
     content |-> response, timestamp |-> clock]

AgentName(role) == << role, "-agent" >>

\* agentMemories.get(agentName).push(memory), the list created when absent
PushMemory(memories, agentName, memory) ==
    IF \E k \in 1..Len(memories) : memories[k].agent = agentName
    THEN [k \in 1..Len(memories) |->
            IF memories[k].agent = agentName
            THEN [memories[k] EXCEPT !.memories = Append(@, memory)]
            ELSE memories[k]]
    ELSE Append(memories, [agent |-> agentName, memories |-> << memory >>])

RECURSIVE Flat(_)
\* Array.from(memories.values()).flat()
Flat(memories) ==
    IF Len(memories) = 0 THEN << >>
    ELSE memories[1].memories \o Flat(Tail(memories))

StoreKey(pipelineId, now) == [prefix |-> "pipeline-", pipelineId |-> pipelineId, now |-> now]

\* the entry of a key is kept whatever is stored under the key later
SetEntryUnlessPresent(store, key, value) ==
    IF \E k \in 1..Len(store) : store[k].key = key THEN store
    ELSE Append(store, [key |-> key, memories |-> value])

\* Map.set on a map kept as its entries in insertion order: the value of an
\* existing key is replaced where the key is, a new key goes to the end
SetEntry(store, key, value) ==
    IF \E k \in 1..Len(store) : store[k].key = key
    THEN [k \in 1..Len(store) |->
            IF store[k].key = key THEN [store[k] EXCEPT !.memories = value]
            ELSE store[k]]
    ELSE Append(store, [key |-> key, memories |-> value])

\* storeAgentMemories with Date.now() = now
storeAgentMemories(store, pipelineId, memories, now) ==
    SetEntry(store, StoreKey(pipelineId, now), Flat(memories))

-----------------------------------------------------------------------------
(* executePipelineWithMemory *)

MemoryReturn(ctx, log, memories) ==
    PipelineResult(PipelineSuccess(ctx), PipelineFinalResult(ctx.results),
                   ctx, log, TRUE, memories)

\* The head of the step loop at index k; when the loop is over the
\* memories are stored under a key made of Date.now() and the call returns.
MemoryLoop(pipelineId, steps, k, ctx, log, calls, memories) ==
    IF k > Len(steps)
    THEN /\ pc' = "done"
         /\ \E now \in clock..MaxClock :
              /\ clock' = now
              /\ memoryStore' = storeAgentMemories(memoryStore, pipelineId, memories, now)
         /\ ret' = MemoryReturn(ctx, log, memories)
         /\ context' = ctx
         /\ executionLog' = log
         /\ chatCalls' = calls
         /\ agentMemories' = memories
         /\ i' = i
    ELSE /\ pc' = "chat"
         /\ ret' = ret
         /\ context' = [ctx EXCEPT !.stepCount = k]
         /\ executionLog' = Append(log, LogExecuting(k, Len(steps), steps[k].role))
         /\ chatCalls' = Append(calls, IssuedCall("step", steps[k].role, k, InputMap(steps[k], ctx)))
         /\ agentMemories' = memories
         /\ i' = k
         /\ UNCHANGED << clock, memoryStore >>

ExecutePipelineWithMemory(pipelineId, userPrompt) ==
    /\ pc = "idle"
    /\ op' = [name |-> "executePipelineWithMemory", pipelineId |-> pipelineId, userPrompt |-> userPrompt]
    /\ IF ~PipelineFound(pipelineId)
       THEN /\ pc' = "done"
            /\ ret' = NotFoundError(pipelineId)
            /\ UNCHANGED << context, executionLog, chatCalls, i, agentMemories,
                            clock, memoryStore >>
       ELSE MemoryLoop(pipelineId, pipelines[pipelineId].steps, 1,
                       NewContext(userPrompt, Len(pipelines[pipelineId].steps)),
                       << >>, chatCalls, << >>)
    /\ UNCHANGED << pipelines, me, runs, workflowPlan, interpretation, agentCall >>

\* memory is generated whether or not the step declares an outputKey
MemoryStepChatResolvedAnyKey(body) ==
    /\ pc = "chat"
    /\ op.name = "executePipelineWithMemory"
    /\ LET response == Response(body)
       IN  /\ context' = [context EXCEPT
                  !.results = StoreResult(@, Steps[i].outputKey, response)]
           /\ chatCalls' = Append(Resolved(response),
                                  IssuedCall("memory", Steps[i].role, i,
                                             MemoryPrompt(Steps[i].role, response)))
           /\ pc' = "memoryChat"
           /\ UNCHANGED executionLog
    /\ UNCHANGED << pipelines, me, runs, memoryStore, clock, op, i, agentMemories,
                    workflowPlan, interpretation, agentCall, ret >>

\* generateAgentMemory is started and not awaited
MemoryStepChatResolvedNoAwait(body) ==
    /\ pc = "chat"
    /\ op.name = "executePipelineWithMemory"
    /\ LET response == Response(body)
       IN  /\ context' = [context EXCEPT
                  !.results = StoreResult(@, Steps[i].outputKey, response)]
           /\ chatCalls' =
                 IF Steps[i].outputKey # NoKey
                 THEN Append(Resolved(response),
                             IssuedCall("memory", Steps[i].role, i,
                                        MemoryPrompt(Steps[i].role, response)))
                 ELSE Resolved(response)
           /\ executionLog' = Append(executionLog, LogCompleted(Steps[i].role))
           /\ pc' = "delay"
    /\ UNCHANGED << pipelines, me, runs, memoryStore, clock, op, i, agentMemories,
                    workflowPlan, interpretation, agentCall, ret >>

\* the chat call of step i resolves: the result is stored and, when the
\* step has an outputKey, generateAgentMemory runs up to its chat call
MemoryStepChatResolved(body) ==
    /\ pc = "chat"
    /\ op.name = "executePipelineWithMemory"
    /\ LET response == Response(body)
       IN  /\ context' = [context EXCEPT
                  !.results = StoreResult(@, Steps[i].outputKey, response)]
           /\ IF Steps[i].outputKey # NoKey
              THEN /\ chatCalls' = Append(Resolved(response),
                                          IssuedCall("memory", Steps[i].role, i,
                                                     MemoryPrompt(Steps[i].role, response)))
                   /\ pc' = "memoryChat"
                   /\ UNCHANGED executionLog
              ELSE /\ chatCalls' = Resolved(response)
                   /\ executionLog' = Append(executionLog, LogCompleted(Steps[i].role))
                   /\ pc' = "delay"
    /\ UNCHANGED << pipelines, me, runs, memoryStore, clock, op, i, agentMemories,
                    workflowPlan, interpretation, agentCall, ret >>

\* the chat call of generateAgentMemory resolves: the memory is parsed and
\* pushed, or the parse error is caught and logged
MemoryChatResolved(body) ==
    /\ pc = "memoryChat"
    /\ op.name = "executePipelineWithMemory"
    /\ LET response == Response(body)
           role == Steps[i].role
       IN  /\ chatCalls' = Resolved(response)
           /\ IF ParsesAsJson(response)
              THEN /\ agentMemories' = PushMemory(agentMemories, AgentName(role),
                                                  AgentMemory(role, response))
                   /\ executionLog' = executionLog \o
                         << LogMemoryGenerated(role), LogCompleted(role) >>
              ELSE /\ agentMemories' = agentMemories
                   /\ executionLog' = executionLog \o
                         << LogMemoryFailed(role, "SyntaxError"), LogCompleted(role) >>
    /\ pc' = "delay"
    /\ UNCHANGED << pipelines, me, runs, memoryStore, clock, op, i, context,
                    workflowPlan, interpretation, agentCall, ret >>

MemoryChatFailedUncaught ==
    /\ pc = "memoryChat"
    /\ op.name = "executePipelineWithMemory"
    /\ LET errorMsg == StepFailedMsg(Steps[i].role)
       IN  MemoryLoop(op.pipelineId, Steps, i + 1,
                      [context EXCEPT !.errors = Append(@, errorMsg)],
                      Append(executionLog, LogError(errorMsg)), Rejected, agentMemories)
    /\ UNCHANGED << pipelines, me, runs, op, workflowPlan, interpretation, agentCall >>

\* the chat call of generateAgentMemory rejects: caught and logged
MemoryChatFailed ==
    /\ pc = "memoryChat"
    /\ op.name = "executePipelineWithMemory"
    /\ chatCalls' = Rejected
    /\ executionLog' = executionLog \o
          << LogMemoryFailed(Steps[i].role, ApiError), LogCompleted(Steps[i].role) >>
    /\ pc' = "delay"
    /\ UNCHANGED << pipelines, me, runs, memoryStore, clock, op, i, context, agentMemories,
                    workflowPlan, interpretation, agentCall, ret >>

\* the chat call of step i rejects: the catch block (which has no break),
\* then the next iteration
MemoryStepChatFailed ==
    /\ pc = "chat"
    /\ op.name = "executePipelineWithMemory"
    /\ LET errorMsg == StepFailedMsg(Steps[i].role)
           ctx == [context EXCEPT !.errors = Append(@, errorMsg)]
           log == Append(executionLog, LogError(errorMsg))
       IN  MemoryLoop(op.pipelineId, Steps, i + 1, ctx, log, Rejected, agentMemories)
    /\ UNCHANGED << pipelines, me, runs, op, workflowPlan, interpretation, agentCall >>

MemoryDelayElapsed ==
    /\ pc = "delay"
    /\ op.name = "executePipelineWithMemory"
    /\ MemoryLoop(op.pipelineId, Steps, i + 1, context, executionLog, chatCalls, agentMemories)
    /\ UNCHANGED << pipelines, me, runs, op, workflowPlan, interpretation, agentCall >>

-----------------------------------------------------------------------------
(* executeIntelligentOrchestration: plans *)

PlannedStep(agent, required, iterativeFeedback, feedbackOutput) ==
    [agent |-> agent, instructions |-> [text |-> "planned", embeds |-> NoText, feedback |-> NoText],
     required |-> required, iterativeFeedback |-> iterativeFeedback,
     feedbackOutput |-> feedbackOutput]

FallbackPlanWithFeedback(interp) ==
    << [agent |-> "analysis",
        instructions |-> [text |-> "Analyze codebase for", embeds |-> interp, feedback |-> NoText],
        required |-> TRUE, iterativeFeedback |-> FALSE, feedbackOutput |-> NoKey],
       [agent |-> "coder",
        instructions |-> [text |-> "Generate code based on analysis", embeds |-> interp, feedback |-> NoText],
        required |-> TRUE, iterativeFeedback |-> TRUE, feedbackOutput |-> "coder_result"],
       [agent |-> "judge",
        instructions |-> [text |-> "Review the generated code", embeds |-> NoText, feedback |-> NoText],
        required |-> FALSE, iterativeFeedback |-> FALSE, feedbackOutput |-> NoKey] >>

\* the fallback workflow of determineWorkflowFromInterpretation
FallbackPlan(interp) ==
    << [agent |-> "analysis",
        instructions |-> [text |-> "Analyze codebase for", embeds |-> interp, feedback |-> NoText],
        required |-> TRUE, iterativeFeedback |-> FALSE, feedbackOutput |-> NoKey],
       [agent |-> "coder",
        instructions |-> [text |-> "Generate code based on analysis", embeds |-> interp, feedback |-> NoText],
        required |-> TRUE, iterativeFeedback |-> FALSE, feedbackOutput |-> NoKey],
       [agent |-> "judge",
        instructions |-> [text |-> "Review the generated code", embeds |-> NoText, feedback |-> NoText],
        required |-> FALSE, iterativeFeedback |-> FALSE, feedbackOutput |-> NoKey] >>

\* plans of the planner have up to MaxPlanLen steps ...
MaxPlanLen == 2

\* ... or are one step repeated LongPlanLen times
LongPlanLen == 10

\* failed memory generations explored in one executeIntelligentOrchestration
MaxAgentMemoryFailures == 1

\* steps the planner may put in a plan
PlanSteps ==
    { PlannedStep("analysis", TRUE, FALSE, NoKey),
      PlannedStep("coder", TRUE, TRUE, "coder_result"),
      PlannedStep("judge", FALSE, FALSE, NoKey),
      PlannedStep("coder", FALSE, TRUE, "judge_result") }

Plans ==
    UNION { [1..n -> PlanSteps] : n \in 0..MaxPlanLen }
    \cup { [k \in 1..LongPlanLen |-> PlannedStep("analysis", TRUE, FALSE, NoKey)] }

\* what the planner's response may hold: text that is no JSON, JSON
\* without a steps array, or JSON with a plan
PlannerPayloads ==
    { [body |-> "not json", steps |-> << >>], [body |-> "json without steps", steps |-> << >>] }
    \cup { [body |-> "json", steps |-> p] : p \in Plans }

-----------------------------------------------------------------------------
(* executeSingleAgent *)

\* maxSteps of the context of executeIntelligentOrchestration
IntelligentMaxSteps == 10

\* content classes of an agent's response: whether it contains "error",
\* "issues" or "fix needed" in any letter case
AgentBodies(role) ==
    IF role \in {"coder", "judge"} THEN {"text", "text with issues"} ELSE {"text"}

ContainsQualityIssue(text) == text.body = "text with issues"

\* outputKey of executeSingleAgent
ResultKey(agentRole) == agentRole \o "_result"

AgentFailedMsg(role) == [t |-> "failed", role |-> role, message |-> ApiError]

LogAgentExecuting(role) == [t |-> "Executing agent", role |-> role]

LogAgentCompleted(role) == [t |-> "completed successfully", role |-> role]

LogAgentFailed(msg) == [t |-> "agent failed", msg |-> msg]

LogWorkflow(payload) == [t |-> "Workflow determined", plan |-> payload]

LogRequiredFailed(role) == [t |-> "Required step failed - stopping workflow", role |-> role]

LogQualityIssues(role) == [t |-> "Quality issues detected", role |-> role]

LogInterpretationFailed == [t |-> "Pipeline failed at interpretation stage"]

\* executionLog.filter(l => l.includes('completed')).length
CompletedCount(log) ==
    Cardinality({k \in 1..Len(log) : log[k].t = "completed successfully"})

MemoryFailures(log) ==
    Cardinality({k \in 1..Len(log) : log[k].t = "Memory generation failed"})

InterpreterInstructions(userPrompt) ==
    [text |-> "Analyze this user request", embeds |-> FixedText(userPrompt), feedback |-> NoText]

IterationInstructions(step, qualityCheck) ==
    [step.instructions EXCEPT !.feedback = qualityCheck]

SupervisorInstructions(interp, log, results) ==
    [text |-> "Pipeline Completion Summary", embeds |-> interp, feedback |-> NoText,
     completed |-> CompletedCount(log), previews |-> results]

\* finalResult of executeIntelligentOrchestration
IntelligentFinalResult(results) ==
    OrElse(Has(results, "final_summary"),
           IF Has(results, "final_summary") THEN results["final_summary"] ELSE NoText,
           OrElse(Has(results, "generated_code"),
                  IF Has(results, "generated_code") THEN results["generated_code"] ELSE NoText,
                  FixedText("Workflow completed")))

\* `context.results.get('interpretation') || ''`
ReadInterpretation(results) ==
    IF Has(results, "interpretation") THEN results["interpretation"] ELSE NoText

\* the text under the key is not inspected
FeedbackDueWhenDeclared(step, results) ==
    /\ step.iterativeFeedback
    /\ Has(results, step.feedbackOutput)

\* the step's feedback re-invocation is due
FeedbackDue(step, results) ==
    /\ step.iterativeFeedback
    /\ Has(results, step.feedbackOutput)
    /\ ContainsQualityIssue(results[step.feedbackOutput])

\* executeSingleAgent is entered: it logs and runs up to its chat call
StartAgent(caller, role, instructions, k, ctx, log, calls, memories) ==
    /\ pc' = "agentChat"
    /\ agentCall' = [caller |-> caller, role |-> role, instructions |-> instructions]
    /\ i' = k
    /\ context' = ctx
    /\ executionLog' = Append(log, LogAgentExecuting(role))
    /\ chatCalls' = Append(calls, IssuedCall("agent", role, k, instructions))
    /\ agentMemories' = memories
    /\ ret' = ret

\* the supervisor is run as one more turn of the workflow loop
SuperviseInsideLoop(k, ctx, log, calls, memories) ==
    StartAgent("iteration", "supervisor",
               SupervisorInstructions(interpretation, log, ctx.results),
               k, ctx, log, calls, memories)

\* the final aggregation by the supervisor
Supervise(k, ctx, log, calls, memories) ==
    StartAgent("supervisor", "supervisor",
               SupervisorInstructions(interpretation, log, ctx.results),
               k, ctx, log, calls, memories)

PlanLoopSkipsAhead(k, ctx, log, calls, memories) ==
    Supervise(k, ctx, log, calls, memories)

PlanLoopRepeatsStep(k, ctx, log, calls, memories) ==
    StartAgent("step", workflowPlan[k - 1].agent, workflowPlan[k - 1].instructions,
               k - 1, ctx, log, calls, memories)

\* the head of the workflow loop at index k
PlanLoop(k, ctx, log, calls, memories) ==
    IF k > Len(workflowPlan)
    THEN Supervise(k, ctx, log, calls, memories)
    ELSE StartAgent("step", workflowPlan[k].agent, workflowPlan[k].instructions,
                    k, ctx, log, calls, memories)

IntelligentReturnByErrors(success, finalResult, ctx, log, hasMemories, memories, calls) ==
    /\ pc' = "done"
    /\ ret' = PipelineResult(Len(ctx.errors) = 0, finalResult, ctx, log, hasMemories, memories)
    /\ context' = ctx
    /\ executionLog' = log
    /\ chatCalls' = calls
    /\ agentMemories' = memories
    /\ UNCHANGED << i, agentCall >>

IntelligentReturn(success, finalResult, ctx, log, hasMemories, memories, calls) ==
    /\ pc' = "done"
    /\ ret' = PipelineResult(success, finalResult, ctx, log, hasMemories, memories)
    /\ context' = ctx
    /\ executionLog' = log
    /\ chatCalls' = calls
    /\ agentMemories' = memories
    /\ UNCHANGED << i, agentCall >>

InterpreterFailedNever(success) == FALSE

\* `if (!interpreterResult.success)`
InterpreterFailed(success) == ~success

\* executeSingleAgent has returned { success } to executeIntelligentOrchestration,
\* which runs on to its next await or to its return
AfterAgent(success, ctx, log, calls, memories) ==
    CASE agentCall.caller = "interpreter" ->
            IF InterpreterFailed(success)
            THEN /\ IntelligentReturn(FALSE,
                        FixedText("Interpretation failed - cannot determine next steps"),
                        ctx, Append(log, LogInterpretationFailed), FALSE, NoMemories, calls)
                 /\ UNCHANGED interpretation
            ELSE /\ interpretation' = ReadInterpretation(ctx.results)
                 /\ pc' = "plannerChat"
                 /\ chatCalls' = Append(calls,
                        IssuedCall("planner", "workflow-director", 0,
                                   [userPrompt |-> ctx.userPrompt,
                                    interpretation |-> ReadInterpretation(ctx.results)]))
                 /\ context' = ctx
                 /\ executionLog' = log
                 /\ agentMemories' = memories
                 /\ UNCHANGED << i, agentCall, ret >>
      [] agentCall.caller = "step" ->
            /\ UNCHANGED interpretation
            /\ LET step == workflowPlan[i]
               IN  IF ~success /\ step.required
                   THEN Supervise(i, ctx, Append(log, LogRequiredFailed(step.agent)),
                                  calls, memories)
                   ELSE IF FeedbackDue(step, ctx.results)
                   THEN StartAgent("iteration", step.agent,
                            IterationInstructions(step, ctx.results[step.feedbackOutput]),
                            i, ctx, Append(log, LogQualityIssues(step.agent)),
                            calls, memories)
                   ELSE PlanLoop(i + 1, ctx, log, calls, memories)
      [] agentCall.caller = "iteration" ->
            /\ UNCHANGED interpretation
            /\ PlanLoop(i + 1, ctx, log, calls, memories)
      [] OTHER ->
            /\ UNCHANGED interpretation
            /\ IntelligentReturn(success, IntelligentFinalResult(ctx.results),
                                 ctx, log, TRUE, memories, calls)

\* executeIntelligentOrchestration(userPrompt) is called
ExecuteIntelligentOrchestration(userPrompt) ==
    /\ pc = "idle"
    /\ op' = [name |-> "executeIntelligentOrchestration", pipelineId |-> "", userPrompt |-> userPrompt]
    /\ StartAgent("interpreter", "interpreter", InterpreterInstructions(userPrompt), 0,
                  NewContext(userPrompt, IntelligentMaxSteps), << >>, chatCalls, << >>)
    /\ UNCHANGED << pipelines, me, runs, memoryStore, clock, workflowPlan, interpretation >>

\* the agent's chat call resolves: the response is stored, the step is
\* counted and generateAgentMemory runs up to its chat call
AgentChatResolved(body) ==
    /\ pc = "agentChat"
    /\ LET response == Response(body)
       IN  /\ context' = [context EXCEPT
                  !.results = Put(@, ResultKey(agentCall.role), response),
                  !.stepCount = @ + 1]
           /\ chatCalls' = Append(Resolved(response),
                  IssuedCall("memory", agentCall.role, i,
                      MemoryPrompt(agentCall.role,
                          [instructions |-> agentCall.instructions, response |-> response])))
    /\ pc' = "agentMemoryChat"
    /\ UNCHANGED << pipelines, me, runs, memoryStore, clock, op, i, executionLog, agentMemories,
                    workflowPlan, interpretation, agentCall, ret >>

\* the agent's chat call rejects: the catch block of executeSingleAgent
AgentChatFailed ==
    /\ pc = "agentChat"
    /\ LET errorMsg == AgentFailedMsg(agentCall.role)
       IN  AfterAgent(FALSE, [context EXCEPT !.errors = Append(@, errorMsg)],
                      Append(executionLog, LogAgentFailed(errorMsg)), Rejected, agentMemories)
    /\ UNCHANGED << pipelines, me, runs, memoryStore, clock, op, workflowPlan >>

\* the chat call of generateAgentMemory resolves
AgentMemoryResolved(body) ==
    /\ pc = "agentMemoryChat"
    /\ body = "json" \/ MemoryFailures(executionLog) < MaxAgentMemoryFailures
    /\ LET response == Response(body)
           role == agentCall.role
       IN  IF ParsesAsJson(response)
           THEN AfterAgent(TRUE, context,
                    Append(executionLog, LogAgentCompleted(role)), Resolved(response),
                    PushMemory(agentMemories, AgentName(role), AgentMemory(role, response)))
           ELSE AfterAgent(TRUE, context,
                    executionLog \o << LogMemoryFailed(role, "SyntaxError"),
                                       LogAgentCompleted(role) >>,
                    Resolved(response), agentMemories)
    /\ UNCHANGED << pipelines, me, runs, memoryStore, clock, op, workflowPlan >>

\* the chat call of generateAgentMemory rejects
AgentMemoryFailed ==
    /\ pc = "agentMemoryChat"
    /\ MemoryFailures(executionLog) < MaxAgentMemoryFailures
    /\ AfterAgent(TRUE, context,
           executionLog \o << LogMemoryFailed(agentCall.role, ApiError),
                              LogAgentCompleted(agentCall.role) >>,
           Rejected, agentMemories)
    /\ UNCHANGED << pipelines, me, runs, memoryStore, clock, op, workflowPlan >>

-----------------------------------------------------------------------------
(* determineWorkflowFromInterpretation *)

TypeError == [status |-> "thrown", error |-> "TypeError", pipelineId |-> ""]

ServiceError == [status |-> "thrown", error |-> ApiError, pipelineId |-> ""]

\* the planner's chat call resolves: the response is parsed or replaced by
\* the fallback, logged, and the workflow loop starts
PlannerChatResolved(payload) ==
    /\ pc = "plannerChat"
    /\ LET response == Response(payload.body)
           calls == Resolved(response)
           plan == IF payload.body = "not json" THEN FallbackPlan(interpretation)
                   ELSE payload.steps
           log == Append(executionLog, LogWorkflow(
                     IF payload.body = "not json"
                     THEN [body |-> "json", steps |-> plan] ELSE payload))
       IN  IF payload.body = "json without steps"
           THEN /\ pc' = "done"
                /\ ret' = TypeError
                /\ executionLog' = log
                /\ chatCalls' = calls
                /\ UNCHANGED << workflowPlan, context, agentMemories, i, agentCall >>
           ELSE /\ workflowPlan' = plan
                /\ IF Len(plan) = 0
                   THEN StartAgent("supervisor", "supervisor",
                            SupervisorInstructions(interpretation, log, context.results),
                            1, context, log, calls, agentMemories)
                   ELSE StartAgent("step", plan[1].agent, plan[1].instructions,
                            1, context, log, calls, agentMemories)
    /\ UNCHANGED << pipelines, me, runs, memoryStore, clock, op, interpretation >>

\* the planner's failure is pushed to errors before it is rethrown
PlannerChatFailedRecorded ==
    /\ pc = "plannerChat"
    /\ pc' = "done"
    /\ ret' = ServiceError
    /\ chatCalls' = Rejected
    /\ context' = [context EXCEPT !.errors = Append(@, AgentFailedMsg("workflow-director"))]
    /\ UNCHANGED << pipelines, me, runs, memoryStore, clock, op, i, executionLog,
                    agentMemories, workflowPlan, interpretation, agentCall >>

\* the planner's chat call rejects: nothing catches it
PlannerChatFailed ==
    /\ pc = "plannerChat"
    /\ pc' = "done"
    /\ ret' = ServiceError
    /\ chatCalls' = Rejected
    /\ UNCHANGED << pipelines, me, runs, memoryStore, clock, op, i, context, executionLog,
                    agentMemories, workflowPlan, interpretation, agentCall >>

-----------------------------------------------------------------------------
(* pruneAgentMemories *)

\* memories one agent may have in the map pruneAgentMemories is given
MaxGroupLen == 3

\* the fallback keeps allMemories.slice(0, 5)
FallbackKeep == 5

\* the prompt shows allMemories.slice(0, 10)
PromptShows == 10

\* an AgentMemory recorded earlier, told apart by id
StoredMemory(agentRole, id) ==
    [agentRole |-> agentRole, memoryType |-> getMemoryTypeForRole(agentRole),
     content |-> [n |-> id, body |-> "json"], timestamp |-> 0]

\* one entry of the map: ids base+1 .. base+len
Group(agentRole, len, base) ==
    [agent |-> AgentName(agentRole),
     memories |-> [k \in 1..len |-> StoredMemory(agentRole, base + k)]]

\* the maps a caller may pass, in insertion order: no entry, one entry, or
\* an entry for the interpreter followed by one for the coder
MemoryMaps ==
    { << >> }
    \cup { << Group(r, a, 0) >> : r \in {"interpreter", "coder"}, a \in 0..MaxGroupLen }
    \cup { << Group("interpreter", a, 0), Group("coder", b, a) >> :
              a \in 0..MaxGroupLen, b \in 0..MaxGroupLen }

\* `{ agent: agentName, ...memory }`
Tagged(agentName, memory) ==
    [agent |-> agentName, agentRole |-> memory.agentRole,
     memoryType |-> memory.memoryType, content |-> memory.content,
     timestamp |-> memory.timestamp]

RECURSIVE AllMemories(_)
\* Array.from(agentMemories.entries()).flatMap(...)
AllMemories(groups) ==
    IF Len(groups) = 0 THEN << >>
    ELSE [k \in 1..Len(groups[1].memories) |->
             Tagged(groups[1].agent, groups[1].memories[k])]
         \o AllMemories(Tail(groups))

\* array.slice(0, end)
SliceTo(s, end) == SubSeq(s, 1, IF end < Len(s) THEN end ELSE Len(s))

SliceFromOffByOne(s, start) == SubSeq(s, start + 2, Len(s))

\* array.slice(start)
SliceFrom(s, start) == SubSeq(s, start + 1, Len(s))

\* a property with a truthy value
Defined(value) == [defined |-> TRUE, value |-> value]

\* a property that is missing, null, empty or otherwise falsy
Undefined == [defined |-> FALSE, value |-> NoText]

PruneFields == {"relevantMemories", "prunedMemories", "contextSummary", "cleanupRecommendations"}

\* What the pruning agent's response may hold: text that is no JSON, the
\* JSON value null, or a JSON value of which the properties in fields are
\* truthy (no property at all for a number, a string, an array or {}).
PrunePayloads ==
    { [body |-> "not json", fields |-> {}], [body |-> "json null", fields |-> {}] }
    \cup { [body |-> "json", fields |-> f] : f \in SUBSET PruneFields }

\* the try block throws: JSON.parse on text that is no JSON, or the read of
\* analysis.relevantMemories on null
PruneTryThrows(payload) == payload.body \in {"not json", "json null"}

\* analysis[field] for a parsed payload
Property(payload, response, field) ==
    IF field \notin payload.fields THEN Undefined
    ELSE IF field = "contextSummary" THEN Defined([n |-> response.n, body |-> field])
    ELSE Defined(<< [n |-> response.n, body |-> field] >>)

OrDefaultNone(property, default) == property

\* `property || default`
OrDefault(property, default) == IF property.defined THEN property ELSE Defined(default)

\* the object returned: a field whose value is undefined is not in it
MemoryAnalysisResult(relevant, pruned, summary, recommendations) ==
    LET properties == [relevantMemories |-> relevant, prunedMemories |-> pruned,
                       contextSummary |-> summary,
                       cleanupRecommendations |-> recommendations]
    IN  [f \in {"status"} \cup {g \in PruneFields : properties[g].defined} |->
            IF f = "status" THEN "returned" ELSE properties[f].value]

\* the result built from the parsed response
ParsedAnalysis(payload, response) ==
    MemoryAnalysisResult(
        OrDefault(Property(payload, response, "relevantMemories"), << >>),
        OrDefault(Property(payload, response, "prunedMemories"), << >>),
        OrDefault(Property(payload, response, "contextSummary"),
                  FixedText("Memory analysis completed")),
        OrDefault(Property(payload, response, "cleanupRecommendations"), << >>))

\* the result of the catch block
FallbackAnalysis(allMemories) ==
    MemoryAnalysisResult(
        Defined(SliceTo(allMemories, FallbackKeep)),
        Defined(SliceFrom(allMemories, FallbackKeep)),
        Defined(FixedText("Automatic pruning performed due to parsing error")),
        Defined(<< FixedText("Implement better JSON parsing for memory analysis") >>))

\* pruneAgentMemories(originalUserPrompt, memories, currentPrompt) is called:
\* the memories are serialized and the chat call is issued
PruneAgentMemories(originalUserPrompt, memories, currentPrompt) ==
    /\ pc = "idle"
    /\ op' = [name |-> "pruneAgentMemories", pipelineId |-> "", userPrompt |-> originalUserPrompt]
    /\ agentMemories' = memories
    /\ chatCalls' = Append(chatCalls,
          IssuedCall("prune", "memory-pruner", 0,
              [original |-> originalUserPrompt, current |-> currentPrompt,
               memories |-> SliceTo(AllMemories(memories), PromptShows)]))
    /\ pc' = "pruneChat"
    /\ UNCHANGED << pipelines, me, runs, memoryStore, clock, i, context, executionLog,
                    workflowPlan, interpretation, agentCall, ret >>

\* the chat call resolves: the response is parsed into the result, or the
\* catch block builds the fallback result
PruneChatResolved(payload) ==
    /\ pc = "pruneChat"
    /\ LET response == Response(payload.body)
       IN  /\ chatCalls' = Resolved(response)
           /\ ret' = IF PruneTryThrows(payload)
                     THEN FallbackAnalysis(AllMemories(agentMemories))
                     ELSE ParsedAnalysis(payload, response)
    /\ pc' = "done"
    /\ UNCHANGED << pipelines, me, runs, memoryStore, clock, op, i, context, executionLog,
                    agentMemories, workflowPlan, interpretation, agentCall >>

\* the chat call rejects: it is awaited outside the try block
PruneChatFailed ==
    /\ pc = "pruneChat"
    /\ chatCalls' = Rejected
    /\ ret' = ServiceError
    /\ pc' = "done"
    /\ UNCHANGED << pipelines, me, runs, memoryStore, clock, op, i, context, executionLog,
                    agentMemories, workflowPlan, interpretation, agentCall >>

-----------------------------------------------------------------------------
(* analyzeMemoriesForPipeline *)

\* A pipeline id as the pieces its text is made of.  The pieces are chosen
\* so that, for the ids of this model, one id's text starts with another's
\* exactly when its pieces start with the other's pieces.
IdTokens(pipelineId) ==
    CASE pipelineId = "" -> << >>
      [] pipelineId = "analysis-only" -> << "analysis", "-only" >>
      [] OTHER -> << pipelineId >>

\* the text of a store key: `pipeline-${pipelineId}-${Date.now()}`
KeyText(key) == << key.prefix >> \o IdTokens(key.pipelineId) \o << "-", ToString(key.now) >>

\* `pipeline-${pipelineId}`
KeyPrefix(pipelineId) == << "pipeline-" >> \o IdTokens(pipelineId)

\* String.prototype.startsWith
StartsWith(text, prefix) ==
    /\ Len(prefix) <= Len(text)
    /\ SubSeq(text, 1, Len(prefix)) = prefix

\* the entries stored for exactly this pipeline id
MatchingEntriesOfId(store, pipelineId) ==
    SelectSeq(store, LAMBDA e : e.key.pipelineId = pipelineId)

\* the entries whose key starts with the prefix of the pipeline id
MatchingEntries(store, pipelineId) ==
    SelectSeq(store, LAMBDA e : StartsWith(KeyText(e.key), KeyPrefix(pipelineId)))

RECURSIVE GroupByRole(_, _)
\* memories.forEach(memory => groupedMemories.get(memory.agentRole).push(memory))
GroupByRole(memories, grouped) ==
    IF Len(memories) = 0 THEN grouped
    ELSE GroupByRole(Tail(memories),
                     PushMemory(grouped, memories[1].agentRole, memories[1]))

\* `return null`
Null == [status |-> "returned", null |-> TRUE]

\* analyzeMemoriesForPipeline(pipelineId, userPrompt) is called: it returns
\* null, or it groups the memories found and runs pruneAgentMemories up to
\* its chat call
AnalyzeMemoriesForPipeline(pipelineId, userPrompt) ==
    /\ pc = "idle"
    /\ op' = [name |-> "analyzeMemoriesForPipeline", pipelineId |-> pipelineId,
              userPrompt |-> userPrompt]
    /\ LET memories == Flat(MatchingEntries(memoryStore, pipelineId))
           groupedMemories == GroupByRole(memories, << >>)
       IN  IF Len(memories) = 0
           THEN /\ pc' = "done"
                /\ ret' = Null
                /\ UNCHANGED << agentMemories, chatCalls >>
           ELSE /\ pc' = "pruneChat"
                /\ ret' = ret
                /\ agentMemories' = groupedMemories
                /\ chatCalls' = Append(chatCalls,
                      IssuedCall("prune", "memory-pruner", 0,
                          [original |-> userPrompt, current |-> userPrompt,
                           memories |-> SliceTo(AllMemories(groupedMemories), PromptShows)]))
    /\ UNCHANGED << pipelines, me, runs, memoryStore, clock, i, context, executionLog,
                    workflowPlan, interpretation, agentCall >>

-----------------------------------------------------------------------------
(* getAvailablePipelines and analyzeWorkflowChoice *)

RECURSIVE Values(_, _)
\* Array.from(map.values()) of the registry, whose insertion order is the
\* order ids
Values(map, ids) ==
    IF Len(ids) = 0 THEN << >>
    ELSE (IF ids[1] \in DOMAIN map THEN << map[ids[1]] >> ELSE << >>)
         \o Values(map, Tail(ids))

\* the order in which ids are registered
RegistrationOrder == << "code-development", "analysis-only", "disabled", "supervised", "keyless" >>

\* every registered pipeline is returned
GetAvailablePipelinesUnfiltered ==
    /\ pc = "idle"
    /\ op' = [name |-> "getAvailablePipelines", pipelineId |-> "", userPrompt |-> ""]
    /\ ret' = [status |-> "returned", pipelines |-> Values(pipelines, RegistrationOrder)]
    /\ pc' = "done"
    /\ UNCHANGED << pipelines, me, runs, memoryStore, clock, i, context, executionLog,
                    agentMemories, workflowPlan, interpretation, agentCall, chatCalls >>

\* getAvailablePipelines() is called and returns
GetAvailablePipelines ==
    /\ pc = "idle"
    /\ op' = [name |-> "getAvailablePipelines", pipelineId |-> "", userPrompt |-> ""]
    /\ ret' = [status |-> "returned",
               pipelines |-> SelectSeq(Values(pipelines, RegistrationOrder),
                                       LAMBDA p : p.enabled)]
    /\ pc' = "done"
    /\ UNCHANGED << pipelines, me, runs, memoryStore, clock, i, context, executionLog,
                    agentMemories, workflowPlan, interpretation, agentCall, chatCalls >>

\* analyzeWorkflowChoice(prompt) is called and issues its chat call
AnalyzeWorkflowChoice(prompt) ==
    /\ pc = "idle"
    /\ op' = [name |-> "analyzeWorkflowChoice", pipelineId |-> "", userPrompt |-> prompt]
    /\ chatCalls' = Append(chatCalls,
          IssuedCall("workflow-analysis", "workflow-director", 0, [request |-> prompt]))
    /\ pc' = "choiceChat"
    /\ UNCHANGED << pipelines, me, runs, memoryStore, clock, i, context, executionLog,
                    agentMemories, workflowPlan, interpretation, agentCall, ret >>

\* a fixed text is returned in place of the response
WorkflowChoiceResolvedAsFixedText(body) ==
    /\ pc = "choiceChat"
    /\ chatCalls' = Resolved(Response(body))
    /\ ret' = [status |-> "returned", text |-> FixedText("Workflow completed")]
    /\ pc' = "done"
    /\ UNCHANGED << pipelines, me, runs, memoryStore, clock, op, i, context, executionLog,
                    agentMemories, workflowPlan, interpretation, agentCall >>

\* the chat call resolves: `return response`
WorkflowChoiceResolved(body) ==
    /\ pc = "choiceChat"
    /\ chatCalls' = Resolved(Response(body))
    /\ ret' = [status |-> "returned", text |-> Response(body)]
    /\ pc' = "done"
    /\ UNCHANGED << pipelines, me, runs, memoryStore, clock, op, i, context, executionLog,
                    agentMemories, workflowPlan, interpretation, agentCall >>

\* the chat call rejects: nothing catches it
WorkflowChoiceFailed ==
    /\ pc = "choiceChat"
    /\ chatCalls' = Rejected
    /\ ret' = ServiceError
    /\ pc' = "done"
    /\ UNCHANGED << pipelines, me, runs, memoryStore, clock, op, i, context, executionLog,
                    agentMemories, workflowPlan, interpretation, agentCall >>

-----------------------------------------------------------------------------
(* Calls that share the orchestrator *)

\* calls made on the orchestrator in one behaviour
MaxRuns == 2

NoOp == [name |-> "none", pipelineId |-> "", userPrompt |-> ""]

NoAgentCall == [caller |-> "none", role |-> "", instructions |-> NoText]

\* the locals of a call that has not been made
IdleFrame ==
    [op |-> NoOp, pc |-> "idle", i |-> 0, context |-> NoContext, executionLog |-> << >>,
     agentMemories |-> << >>, workflowPlan |-> << >>, interpretation |-> NoText,
     agentCall |-> NoAgentCall, ret |-> Pending, chatCalls |-> << >>]

\* the locals of the call the variables hold
CurrentFrame ==
    [op |-> op, pc |-> pc, i |-> i, context |-> context, executionLog |-> executionLog,
     agentMemories |-> agentMemories, workflowPlan |-> workflowPlan,
     interpretation |-> interpretation, agentCall |-> agentCall, ret |-> ret,
     chatCalls |-> chatCalls]

\* the locals of every call
Frames == [r \in 1..MaxRuns |-> IF r = me THEN CurrentFrame ELSE runs[r]]

SwitchSharingContext(k) ==
    /\ k \in (1..MaxRuns) \ {me}
    /\ pc # "idle"
    /\ runs[k].pc # "done"
    /\ k > me => (k = me + 1 \/ runs[k - 1].pc # "idle")
    /\ runs' = [runs EXCEPT ![me] = CurrentFrame, ![k] = IdleFrame]
    /\ me' = k
    /\ op' = runs[k].op
    /\ pc' = runs[k].pc
    /\ i' = runs[k].i
    /\ context' = context
    /\ executionLog' = runs[k].executionLog
    /\ agentMemories' = runs[k].agentMemories
    /\ workflowPlan' = runs[k].workflowPlan
    /\ interpretation' = runs[k].interpretation
    /\ agentCall' = runs[k].agentCall
    /\ ret' = runs[k].ret
    /\ chatCalls' = runs[k].chatCalls
    /\ UNCHANGED << pipelines, memoryStore, clock >>

\* The event loop turns to call k while the call in hand is suspended at an
\* await or is over: call k is then made, or goes on from its await.  The
\* locals of a call (context, executionLog, agentMemories, ...) are its
\* own; pipelines, memoryStore and the clock are the orchestrator's.
Switch(k) ==
    /\ k \in (1..MaxRuns) \ {me}
    /\ pc # "idle"
    /\ runs[k].pc # "done"
    /\ k > me => (k = me + 1 \/ runs[k - 1].pc # "idle")
    /\ runs' = [runs EXCEPT ![me] = CurrentFrame, ![k] = IdleFrame]
    /\ me' = k
    /\ op' = runs[k].op
    /\ pc' = runs[k].pc
    /\ i' = runs[k].i
    /\ context' = runs[k].context
    /\ executionLog' = runs[k].executionLog
    /\ agentMemories' = runs[k].agentMemories
    /\ workflowPlan' = runs[k].workflowPlan
    /\ interpretation' = runs[k].interpretation
    /\ agentCall' = runs[k].agentCall
    /\ ret' = runs[k].ret
    /\ chatCalls' = runs[k].chatCalls
    /\ UNCHANGED << pipelines, memoryStore, clock >>

-----------------------------------------------------------------------------
(* Specifications *)

InitOn(registry) ==
    /\ pipelines = registry
    /\ memoryStore = EmptyMap
    /\ clock = 0
    /\ op = NoOp
    /\ pc = "idle"
    /\ i = 0
    /\ context = NoContext
    /\ executionLog = << >>
    /\ agentMemories = << >>
    /\ workflowPlan = << >>
    /\ interpretation = NoText
    /\ agentCall = NoAgentCall
    /\ ret = Pending
    /\ chatCalls = << >>
    /\ me = 1
    /\ runs = [r \in 1..MaxRuns |-> IdleFrame]

\* the orchestrator after construction
Init == InitOn(initializePipelines)

CallExecutePipeline == \E id \in PipelineIds, p \in Prompts : ExecutePipeline(id, p)

StepChatResolved == \E b \in StepBodies : ExecuteChatResolved(b)

CallExecutePipelineWithMemory ==
    \E id \in PipelineIds, p \in Prompts : ExecutePipelineWithMemory(id, p)

MemoryStepResolved == \E b \in StepBodies : MemoryStepChatResolved(b)

MemoryResolved == \E b \in MemoryBodies : MemoryChatResolved(b)

NextPipeline ==
    \/ CallExecutePipeline
    \/ StepChatResolved
    \/ ExecuteChatFailed
    \/ ExecuteDelayElapsed
    \/ CallExecutePipelineWithMemory
    \/ MemoryStepResolved
    \/ MemoryResolved
    \/ MemoryChatFailed
    \/ MemoryStepChatFailed
    \/ MemoryDelayElapsed

CallExecuteIntelligentOrchestration ==
    \E p \in Prompts : ExecuteIntelligentOrchestration(p)

AgentResolved == \E b \in AgentBodies(agentCall.role) : AgentChatResolved(b)

AgentMemoryChatResolved == \E b \in MemoryBodies : AgentMemoryResolved(b)

PlannerResolved == \E payload \in PlannerPayloads : PlannerChatResolved(payload)

NextIntelligent ==
    \/ CallExecuteIntelligentOrchestration
    \/ AgentResolved
    \/ AgentChatFailed
    \/ AgentMemoryChatResolved
    \/ AgentMemoryFailed
    \/ PlannerResolved
    \/ PlannerChatFailed

CallPruneAgentMemories ==
    \E original \in Prompts, memories \in MemoryMaps, current \in Prompts :
        PruneAgentMemories(original, memories, current)

PruneResolved == \E payload \in PrunePayloads : PruneChatResolved(payload)

NextPrune ==
    \/ CallPruneAgentMemories
    \/ PruneResolved
    \/ PruneChatFailed

\* ids analyzeMemoriesForPipeline may be called with: registered or not,
\* the start of a registered id, and the empty id
AnalyzedIds == PipelineIds \cup {"analysis", ""}

CallAnalyzeMemoriesForPipeline ==
    \E id \in AnalyzedIds, p \in Prompts : AnalyzeMemoriesForPipeline(id, p)

CallAnalyzeWorkflowChoice == \E p \in Prompts : AnalyzeWorkflowChoice(p)

ChoiceResolved == \E b \in StepBodies : WorkflowChoiceResolved(b)

NextQueries ==
    \/ CallAnalyzeMemoriesForPipeline
    \/ GetAvailablePipelines
    \/ CallAnalyzeWorkflowChoice
    \/ ChoiceResolved
    \/ WorkflowChoiceFailed

Next == NextPipeline \/ NextIntelligent \/ NextPrune \/ NextQueries

Spec == Init /\ [][Next]_vars

\* the executors on a registry with further pipelines
InitAny == InitOn(AnyPipelines)

SpecAny == InitAny /\ [][NextPipeline]_vars

\* executeIntelligentOrchestration alone
SpecIntelligent == Init /\ [][NextIntelligent]_vars

\* the completion call a run of executeIntelligentOrchestration awaits
\* resolves or rejects
CompletionCallSettles ==
    \/ AgentResolved
    \/ AgentChatFailed
    \/ AgentMemoryChatResolved
    \/ AgentMemoryFailed
    \/ PlannerResolved
    \/ PlannerChatFailed

\* executeIntelligentOrchestration when no completion call stays pending
\* for ever: the continuation of an awaited call runs once the call settles
SpecIntelligentLive == SpecIntelligent /\ WF_vars(CompletionCallSettles)

\* pruneAgentMemories alone
SpecPrune == Init /\ [][NextPrune]_vars

TurnTo == \E k \in 1..MaxRuns : Switch(k)

\* the calls that share the orchestrator: executePipeline on the pipeline
\* of two steps, executePipelineWithMemory on the pipeline of one step, and
\* analyzeMemoriesForPipeline with the start of a stored id, with the empty
\* id and with an id nothing is stored for
RunExecutePipeline == \E p \in Prompts : ExecutePipeline("keyless", p)

RunExecutePipelineWithMemory ==
    \E p \in Prompts : ExecutePipelineWithMemory("analysis-only", p)

RunAnalyzeMemoriesForPipeline ==
    \E id \in {"analysis", "", "disabled"}, p \in Prompts :
        AnalyzeMemoriesForPipeline(id, p)

\* responses of the pruning agent to these calls: no JSON, or JSON with
\* all four fields
RunPruneResolved ==
    \E payload \in {[body |-> "not json", fields |-> {}],
                     [body |-> "json", fields |-> PruneFields]} :
        PruneChatResolved(payload)

\* MaxRuns calls of the pipeline executors and of the queries, made one
\* after another or while earlier ones are suspended
NextRuns ==
    \/ TurnTo
    \/ RunExecutePipeline
    \/ StepChatResolved
    \/ ExecuteChatFailed
    \/ ExecuteDelayElapsed
    \/ RunExecutePipelineWithMemory
    \/ MemoryStepResolved
    \/ MemoryResolved
    \/ MemoryChatFailed
    \/ MemoryStepChatFailed
    \/ MemoryDelayElapsed
    \/ RunAnalyzeMemoriesForPipeline
    \/ RunPruneResolved
    \/ PruneChatFailed
    \/ GetAvailablePipelines
    \/ CallAnalyzeWorkflowChoice
    \/ ChoiceResolved
    \/ WorkflowChoiceFailed

\* the store as earlier calls of executePipelineWithMemory have left it,
\* before the clock of the behaviour started
EarlierStore ==
    storeAgentMemories(
        storeAgentMemories(
            storeAgentMemories(<< >>, "analysis-only", << Group("analyzer", 1, 0) >>, -1),
            "supervised",
            << Group("coder", 1, 1), Group("supervisor", 1, 2), Group("judge", 1, 3) >>, -1),
        "keyless", << Group("coder", 1, 4) >>, -1)

\* the orchestrator with an empty store or with the store of earlier calls
InitRuns ==
    /\ pipelines = AnyPipelines
    /\ memoryStore \in {EmptyMap, EarlierStore}
    /\ clock = 0
    /\ op = NoOp
    /\ pc = "idle"
    /\ i = 0
    /\ context = NoContext
    /\ executionLog = << >>
    /\ agentMemories = << >>
    /\ workflowPlan = << >>
    /\ interpretation = NoText
    /\ agentCall = NoAgentCall
    /\ ret = Pending
    /\ chatCalls = << >>
    /\ me = 1
    /\ runs = [r \in 1..MaxRuns |-> IdleFrame]

SpecRuns == InitRuns /\ [][NextRuns]_vars

-----------------------------------------------------------------------------
(* calculateMemoryRelevance *)

\* words of a prompt after the most that are appended
MaxPromptWords == 12

\* `Math.min(relevanceScore, 10)`
ScoreCap == 10

\* `word.length > 3`
ShortWordLength == 3

\* The words userPrompt.split(/\s+/) may yield; a prompt is kept as the
\* sequence of these words.
Words == {"", "api", "json", "Cache", "retry"}

\* word.length
WordLength(word) ==
    CASE word = "" -> 0
      [] word = "api" -> 3
      [] word = "json" -> 4
      [] OTHER -> 5

\* String.prototype.toLowerCase
ToLowerCase(word) == IF word = "Cache" THEN "cache" ELSE word

\* The memory content, as the set of words that occur in
\* JSON.stringify(memoryContent).
Contents == { {}, {"api", "jsonl"}, {"Cache", "api"} }

\* JSON.stringify(memoryContent).toLowerCase(), as the words that occur in it
MemoryText(memoryContent) == {ToLowerCase(word) : word \in memoryContent}

\* word occurs in text as a substring, for the words of this model
IsSubstring(word, text) ==
    \/ word = ""
    \/ word = text
    \/ word = "json" /\ text = "jsonl"

\* only a whole word of the text is found
IncludesWholeWord(memoryText, word) == word = "" \/ word \in memoryText

\* memoryText.includes(word)
Includes(memoryText, word) == word = "" \/ \E text \in memoryText : IsSubstring(word, text)

RECURSIVE CountMatches(_, _)
\* relevanceScore after the loop over promptWords
CountMatches(promptWords, memoryText) ==
    IF Len(promptWords) = 0 THEN 0
    ELSE (IF WordLength(promptWords[1]) > ShortWordLength
             /\ Includes(memoryText, promptWords[1])
          THEN 1 ELSE 0)
         + CountMatches(Tail(promptWords), memoryText)

\* the score is returned as counted
UnclampedRelevance(memoryContent, userPrompt) ==
    CountMatches([k \in 1..Len(userPrompt) |-> ToLowerCase(userPrompt[k])],
                 MemoryText(memoryContent))

calculateMemoryRelevance(memoryContent, userPrompt) ==
    LET promptWords == [k \in 1..Len(userPrompt) |-> ToLowerCase(userPrompt[k])]
        memoryText == MemoryText(memoryContent)
        relevanceScore == CountMatches(promptWords, memoryText)
    IN  IF relevanceScore < ScoreCap THEN relevanceScore ELSE ScoreCap

\* calculateMemoryRelevance(memoryContent, userPrompt) is called and returns
CalculateMemoryRelevance(memoryContent, userPrompt) ==
    /\ op' = [name |-> "calculateMemoryRelevance", pipelineId |-> "",
              userPrompt |-> userPrompt, memoryContent |-> memoryContent]
    /\ ret' = [status |-> "returned",
               relevanceScore |-> calculateMemoryRelevance(memoryContent, userPrompt)]
    /\ pc' = "done"
    /\ UNCHANGED << pipelines, me, runs, memoryStore, clock, i, context, executionLog,
                    agentMemories, workflowPlan, interpretation, agentCall, chatCalls >>

\* the first call, with a prompt of up to two words
ScorePrompt ==
    /\ pc = "idle"
    /\ \E memoryContent \in Contents, first \in Words, second \in Words :
          \E userPrompt \in {<< >>, << first >>, << first, second >>} :
              CalculateMemoryRelevance(memoryContent, userPrompt)

\* a further call for the same content, with the prompt of the call before
\* and one more word, which occurs in the serialized content
ScoreLongerPrompt ==
    /\ pc = "done"
    /\ op.name = "calculateMemoryRelevance"
    /\ Len(op.userPrompt) < MaxPromptWords
    /\ \E word \in op.memoryContent :
          CalculateMemoryRelevance(op.memoryContent, Append(op.userPrompt, word))

NextRelevance == ScorePrompt \/ ScoreLongerPrompt

\* calculateMemoryRelevance alone
SpecRelevance == Init /\ [][NextRelevance]_vars

-----------------------------------------------------------------------------
(* The retention flags of a memory *)

\* The roles of the steps and agents of the registered pipelines and plans.
RetentionRoles ==
    {"interpreter", "coder", "analysis", "judge", "quality-judge",
     "supervisor", "analyzer", "quality-check", "retrieval"}

\* The words that may occur in JSON.stringify(memoryContent); a content is
\* the set of those that occur in it.
RetentionWords == {"error", "bug", "fix", "Error", "debug", "prefix", "text"}

\* String.prototype.includes on the texts of this model, letter case kept
IncludesText(text, part) ==
    \/ text = part
    \/ text = "quality-judge" /\ part = "judge"
    \/ text = "debug" /\ part = "bug"
    \/ text = "prefix" /\ part = "fix"

\* JSON.stringify(memoryContent).includes(part)
ContentIncludes(memoryContent, part) ==
    \E word \in memoryContent : IncludesText(word, part)

\* the role is compared as a whole
RoleIs(agentRole, part) == agentRole = part

\* agentRole.includes(part)
RoleIncludes(agentRole, part) == IncludesText(agentRole, part)

\* determineRetentionFlags(agentRole, memoryContent): flags, in the order
\* of the pushes
determineRetentionFlags(agentRole, memoryContent) ==
    LET core == IF agentRole = "interpreter"
                           THEN << "core-interpretation", "permanent-retention" >>
                           ELSE << >>
        coding == IF agentRole = "coder" \/ agentRole = "analysis"
                  THEN << "implementation-patterns", "technical-decisions" >>
                  ELSE << >>
        quality == IF RoleIncludes(agentRole, "judge")
                   THEN << "quality-insights", "error-prevention" >>
                   ELSE << >>
        problems == IF \/ ContentIncludes(memoryContent, "error")
                       \/ ContentIncludes(memoryContent, "bug")
                       \/ ContentIncludes(memoryContent, "fix")
                    THEN << "problem-resolution" >>
                    ELSE << >>
    IN  core \o coding \o quality \o problems

\* determineRetentionFlags(agentRole, memoryContent) is called and returns
DetermineRetentionFlags ==
    /\ pc = "idle"
    /\ \E agentRole \in RetentionRoles, memoryContent \in SUBSET RetentionWords :
          /\ op' = [name |-> "determineRetentionFlags", pipelineId |-> "",
                    agentRole |-> agentRole, memoryContent |-> memoryContent]
          /\ ret' = [status |-> "returned",
                     retentionFlags |-> determineRetentionFlags(agentRole, memoryContent)]
    /\ pc' = "done"
    /\ UNCHANGED << pipelines, me, runs, memoryStore, clock, i, context, executionLog,
                    agentMemories, workflowPlan, interpretation, agentCall, chatCalls >>

NextRetention == DetermineRetentionFlags

\* determineRetentionFlags alone
SpecRetention == Init /\ [][NextRetention]_vars

-----------------------------------------------------------------------------
(* robustRequest of the API client *)

\* robustRequest is called with maxRetries in 0..MaxMaxRetries
MaxMaxRetries == 3

\* milliseconds of the backoff unit
BackoffUnit == 1000

\* the requests passed
Requests == {"request", "other request"}

\* what makes the POST of chat fail
ChatFailureCauses == {"timeout", "status 429", "status 500"}

\* `let lastError: Error | null = null`
NoError == [error |-> "null", cause |-> "null"]

\* the error chat throws for a failed POST
ChatError(cause) == [error |-> "Failed to communicate with Grok API", cause |-> cause]

\* the wait grows by one unit per attempt
LinearBackoff(attempt) == attempt * BackoffUnit

\* Math.pow(2, attempt) * 1000
Backoff(attempt) == (2 ^ attempt) * BackoffUnit

\* the error robustRequest throws when the loop is left
AllAttemptsFailed(maxRetries, lastError) ==
    [status |-> "thrown", error |-> "all attempts failed",
     attempts |-> maxRetries, lastError |-> lastError]

\* the head of the for loop with the loop variable at attempt: the next
\* chat call is issued, or the loop is left and the error is thrown
RobustAttempt(attempt, maxRetries, request, lastError, calls) ==
    /\ i' = attempt
    /\ IF attempt <= maxRetries
       THEN /\ chatCalls' = Append(calls, IssuedCall("robust", "", attempt, request))
            /\ pc' = "robustChat"
            /\ ret' = ret
       ELSE /\ chatCalls' = calls
            /\ pc' = "done"
            /\ ret' = AllAttemptsFailed(maxRetries, lastError)

\* robustRequest(request, maxRetries) is called
RobustRequest ==
    /\ pc = "idle"
    /\ \E request \in Requests, maxRetries \in 0..MaxMaxRetries :
          /\ op' = [name |-> "robustRequest", pipelineId |-> "", request |-> request,
                    maxRetries |-> maxRetries, lastError |-> NoError]
          /\ RobustAttempt(1, maxRetries, request, NoError, chatCalls)
    /\ UNCHANGED << pipelines, me, runs, memoryStore, clock, context, executionLog,
                    agentMemories, workflowPlan, interpretation, agentCall >>

\* the chat call of the attempt resolves: its text is returned
RobustChatResolved ==
    /\ pc = "robustChat"
    /\ \E body \in StepBodies :
          LET response == Response(body)
          IN  /\ chatCalls' = Resolved(response)
              /\ ret' = [status |-> "returned", response |-> response]
    /\ pc' = "done"
    /\ UNCHANGED << pipelines, me, runs, memoryStore, clock, op, i, context, executionLog,
                    agentMemories, workflowPlan, interpretation, agentCall >>

\* the chat call of the attempt throws: the error is kept and the timer of
\* the backoff is set
RobustChatFailed ==
    /\ pc = "robustChat"
    /\ \E cause \in ChatFailureCauses :
          /\ op' = [op EXCEPT !.lastError = ChatError(cause)]
          /\ chatCalls' = Append([chatCalls EXCEPT ![Len(chatCalls)] =
                                     [@ EXCEPT !.outcome = "failed",
                                               !.response = ChatError(cause)]],
                                 IssuedCall("backoff", "", i, Backoff(i)))
    /\ pc' = "robustDelay"
    /\ UNCHANGED << pipelines, me, runs, memoryStore, clock, i, context, executionLog,
                    agentMemories, workflowPlan, interpretation, agentCall, ret >>

\* the timer of the backoff fires: attempt++ and the head of the loop
RobustBackoffElapsed ==
    /\ pc = "robustDelay"
    /\ RobustAttempt(i + 1, op.maxRetries, op.request, op.lastError,
                     [chatCalls EXCEPT ![Len(chatCalls)] = [@ EXCEPT !.outcome = "ok"]])
    /\ UNCHANGED << pipelines, me, runs, memoryStore, clock, op, context, executionLog,
                    agentMemories, workflowPlan, interpretation, agentCall >>

NextRobust ==
    \/ RobustRequest
    \/ RobustChatResolved
    \/ RobustChatFailed
    \/ RobustBackoffElapsed

\* robustRequest alone
SpecRobust == Init /\ [][NextRobust]_vars

-----------------------------------------------------------------------------
(* Observations used by the properties *)

InExecute == op.name = "executePipeline"

InMemory == op.name = "executePipelineWithMemory"

InIntelligent == op.name = "executeIntelligentOrchestration"

Returned == ret.status = "returned"

\* the outstanding completion call
Outstanding == chatCalls[Len(chatCalls)]

\* this transition is the rejection of the outstanding call
CallRejects ==
    /\ Len(chatCalls) > 0
    /\ Outstanding.outcome = "pending"
    /\ chatCalls'[Len(chatCalls)].outcome = "failed"

\* this transition is the resolution of the outstanding call
CallResolves ==
    /\ Len(chatCalls) > 0
    /\ Outstanding.outcome = "pending"
    /\ chatCalls'[Len(chatCalls)].outcome = "ok"

\* the chat calls the step loop has issued for steps, in order
StepCalls == SelectSeq(chatCalls, LAMBDA c : c.purpose = "step")

FailedStepCalls == SelectSeq(StepCalls, LAMBDA c : c.outcome = "failed")

RECURSIVE ExecuteFold(_, _, _, _)
\* The context executePipeline's loop leaves, from step k on, when the chat
\* call of step j has the outcome calls[j].
ExecuteFold(steps, k, ctx, calls) ==
    IF k > Len(steps) \/ k > Len(calls) THEN ctx
    ELSE LET entered == [ctx EXCEPT !.stepCount = k]
         IN  IF calls[k].outcome = "ok"
             THEN ExecuteFold(steps, k + 1,
                      [entered EXCEPT !.results =
                          StoreResult(@, steps[k].outputKey, calls[k].response)],
                      calls)
             ELSE LET failed == [entered EXCEPT !.errors =
                                    Append(@, StepFailedMsg(steps[k].role))]
                  IN  IF HaltsPipeline(steps[k].role) THEN failed
                      ELSE ExecuteFold(steps, k + 1, failed, calls)

\* executePipeline's loop agrees with ExecuteFold
ExecuteIsFold ==
    (InExecute /\ Returned) =>
        ret.context = ExecuteFold(Steps, 1, NewContext(op.userPrompt, Len(Steps)), StepCalls)

-----------------------------------------------------------------------------
(* Properties *)

\* C1: execute and executeWithMemory called with an id that is not
\* registered, or whose pipeline is disabled, fail at once with the
\* not-found error: no completion call has been issued, no context was
\* built or returned and the memory store is as it was.
C1_NotFoundFailsImmediately ==
    ((InExecute \/ InMemory) /\
     (op.pipelineId \notin DOMAIN pipelines \/ ~pipelines[op.pipelineId].enabled)) =>
        /\ pc = "done"
        /\ ret.status = "thrown"
        /\ ret.error = "not found or disabled"
        /\ chatCalls = << >>
        /\ context = NoContext
        /\ memoryStore = EmptyMap

C1_Witness ==
    /\ InMemory
    /\ op.pipelineId = "disabled"
    /\ ret.status = "thrown"

\* C2: for every registered, enabled pipeline and every pattern of step
\* outcomes, execute returns with stepCount = len(steps) and with the raw
\* response of every succeeded step that declares an outputKey under that
\* key.
C2_StepCountAndResults ==
    (InExecute /\ Returned) =>
        /\ ret.context.stepCount = Len(Steps)
        /\ \A c \in 1..Len(chatCalls) :
              (/\ chatCalls[c].purpose = "step"
               /\ chatCalls[c].outcome = "ok"
               /\ Steps[chatCalls[c].step].outputKey # NoKey) =>
                  /\ Has(ret.context.results, Steps[chatCalls[c].step].outputKey)
                  /\ ret.context.results[Steps[chatCalls[c].step].outputKey]
                        = chatCalls[c].response

C2_Witness ==
    /\ InExecute /\ Returned
    /\ op.pipelineId = "code-development"
    /\ Len(ret.context.errors) = 2
    /\ Has(ret.context.results, "generated_code")
    /\ ~Has(ret.context.results, "final_summary")

\* C3 (as claimed): in every reachable state of every run, stepCount is at
\* most maxSteps.
C3_StepCountWithinMaxSteps == context.stepCount <= context.maxSteps

\* C4: in execute, when the chat call of a step whose role is not
\* "supervisor" rejects, exactly one error string is appended to errors and
\* to executionLog, results is untouched, and the next step in order is
\* started (or, after the last step, the run returns).
C4_FailureContinues ==
    [][(InExecute /\ CallRejects /\ Steps[i].role # "supervisor") =>
          /\ context'.errors = Append(context.errors, StepFailedMsg(Steps[i].role))
          /\ context'.results = context.results
          /\ SubSeq(executionLog', 1, Len(executionLog) + 1)
                = Append(executionLog, LogError(StepFailedMsg(Steps[i].role)))
          /\ IF i < Len(Steps)
             THEN /\ pc' = "chat"
                  /\ i' = i + 1
                  /\ Len(chatCalls') = Len(chatCalls) + 1
                  /\ chatCalls'[Len(chatCalls')].purpose = "step"
                  /\ chatCalls'[Len(chatCalls')].step = i + 1
                  /\ chatCalls'[Len(chatCalls')].role = Steps[i + 1].role
                  /\ executionLog' = executionLog \o
                        << LogError(StepFailedMsg(Steps[i].role)),
                           LogExecuting(i + 1, Len(Steps), Steps[i + 1].role) >>
             ELSE /\ pc' = "done"
                  /\ ret'.status = "returned"
                  /\ Len(executionLog') = Len(executionLog) + 1
      ]_vars

C4_Witness ==
    /\ InExecute
    /\ Len(StepCalls) >= 3
    /\ StepCalls[2].outcome = "failed"
    /\ StepCalls[2].role = "analysis"
    /\ StepCalls[3].step = 3
    /\ Len(context.errors) = 1

\* C5: in execute, once the chat call of a step with role "supervisor" has
\* rejected, the run has returned a result, no call was issued for a later
\* step and executionLog has no entry of a later step.
C5_SupervisorHalts ==
    \A c \in 1..Len(chatCalls) :
        (/\ InExecute
         /\ chatCalls[c].purpose = "step"
         /\ chatCalls[c].role = "supervisor"
         /\ chatCalls[c].outcome = "failed") =>
            /\ pc = "done"
            /\ Returned
            /\ c = Len(chatCalls)
            /\ ret.context.stepCount = chatCalls[c].step
            /\ \A l \in 1..Len(ret.executionLog) :
                  ret.executionLog[l].t = "Executing step" =>
                      ret.executionLog[l].step <= chatCalls[c].step
            /\ ret.executionLog[Len(ret.executionLog)].t = "ERROR"

C5_Witness ==
    /\ InExecute /\ Returned
    /\ op.pipelineId = "supervised"
    /\ Len(chatCalls) = 2
    /\ chatCalls[2].role = "supervisor"
    /\ chatCalls[2].outcome = "failed"
    /\ Len(Steps) = 3

\* C6 (as claimed): for any step list and any pattern of step outcomes,
\* executeWithMemory leaves the results, errors, stepCount, success and
\* finalResult that execute leaves on the same outcomes, and issues no step
\* call after a failed supervisor step.
C6_MemoryVariantAgreesWithExecute ==
    (InMemory /\ Returned) =>
        LET plain == ExecuteFold(Steps, 1, NewContext(op.userPrompt, Len(Steps)), StepCalls)
        IN  /\ ret.context.results = plain.results
            /\ ret.context.errors = plain.errors
            /\ ret.context.stepCount = plain.stepCount
            /\ ret.success = PipelineSuccess(plain)
            /\ ret.finalResult = PipelineFinalResult(plain.results)
            /\ \A c \in 1..Len(StepCalls) :
                  (StepCalls[c].role = "supervisor" /\ StepCalls[c].outcome = "failed")
                      => c = Len(StepCalls)

\* this transition is a failure of memory generation: its chat call
\* rejects, or resolves with a response that does not parse
MemoryGenerationFails ==
    /\ pc \in {"memoryChat", "agentMemoryChat"}
    /\ \/ CallRejects
       \/ CallResolves /\ chatCalls'[Len(chatCalls)].response.body = "not json"

AgentCalls == SelectSeq(chatCalls, LAMBDA c : c.purpose = "agent")

\* C7: in executeWithMemory and executeIntelligent, when a step's own chat
\* call succeeded and its memory generation fails, the step's output stays
\* in results, errors and agentMemories are untouched, the failure and then
\* the step's completion are logged, the run goes on to what follows the
\* step, and the success flag depends on the step and agent calls only.
C7_MemoryFailureIsNotFatal ==
    /\ [][MemoryGenerationFails =>
            /\ context' = context
            /\ agentMemories' = agentMemories
            /\ chatCalls[Len(chatCalls) - 1].outcome = "ok"
            /\ executionLog'[Len(executionLog) + 1].t = "Memory generation failed"
            /\ IF InMemory
               THEN /\ Has(context.results, Steps[i].outputKey)
                    /\ context.results[Steps[i].outputKey]
                          = chatCalls[Len(chatCalls) - 1].response
                    /\ executionLog'[Len(executionLog) + 2] = LogCompleted(Steps[i].role)
                    /\ Len(executionLog') = Len(executionLog) + 2
                    /\ pc' = "delay"
                    /\ i' = i
               ELSE /\ Has(context.results, ResultKey(agentCall.role))
                    /\ context.results[ResultKey(agentCall.role)]
                          = chatCalls[Len(chatCalls) - 1].response
                    /\ executionLog'[Len(executionLog) + 2] = LogAgentCompleted(agentCall.role)
                    /\ CASE agentCall.caller = "supervisor" ->
                                pc' = "done" /\ ret'.status = "returned" /\ ret'.success
                         [] agentCall.caller = "interpreter" -> pc' = "plannerChat"
                         [] OTHER ->
                                /\ pc' = "agentChat"
                                /\ (agentCall.caller = "step" /\ i < Len(workflowPlan)
                                    /\ ~FeedbackDue(workflowPlan[i], context.results)) =>
                                       /\ i' = i + 1
                                       /\ chatCalls'[Len(chatCalls')].role
                                             = workflowPlan[i + 1].agent
       ]_vars
    /\ []((InMemory /\ Returned) => (ret.success <=> Len(FailedStepCalls) = 0))
    /\ []((InIntelligent /\ Returned) =>
             (ret.success <=> AgentCalls[Len(AgentCalls)].outcome = "ok"))

C7_Witness ==
    /\ InIntelligent /\ Returned
    /\ ret.success
    /\ Len(ret.context.errors) = 0
    /\ Len(workflowPlan) = 2
    /\ \E l \in 1..Len(ret.executionLog) :
          /\ ret.executionLog[l].t = "Memory generation failed"
          /\ ret.executionLog[l].role = workflowPlan[1].agent

\* C8: execute and executeWithMemory return success = true exactly when
\* context.errors is empty, which is exactly when no step's chat call
\* rejected during the run.
C8_SuccessIffNoErrors ==
    ((InExecute \/ InMemory) /\ Returned) =>
        /\ ret.success <=> ret.context.errors = << >>
        /\ Len(ret.context.errors) = Len(FailedStepCalls)
        /\ \A k \in 1..Len(FailedStepCalls) :
              ret.context.errors[k] = StepFailedMsg(FailedStepCalls[k].role)

C8_Witness ==
    /\ InMemory /\ Returned
    /\ ~ret.success
    /\ Len(ret.context.errors) = 1
    /\ \E l \in 1..Len(ret.executionLog) : ret.executionLog[l].t = "Memory generation failed"

\* C9: execute returns as finalResult the text under results["final_summary"]
\* when that key was written, else the text under results["generated_code"]
\* when that key was written, else "Pipeline completed"; the one-step
\* pipeline "analysis-only" with a succeeding step returns success = true,
\* finalResult = "Pipeline completed" and results = {analysis: response}.
C9_FinalResultConvention ==
    (InExecute /\ Returned) =>
        /\ ret.finalResult =
              IF "final_summary" \in DOMAIN ret.context.results
              THEN ret.context.results["final_summary"]
              ELSE IF "generated_code" \in DOMAIN ret.context.results
                   THEN ret.context.results["generated_code"]
                   ELSE [n |-> 0, body |-> "Pipeline completed"]
        /\ (op.pipelineId = "analysis-only" /\ chatCalls[1].outcome = "ok") =>
              /\ ret.success
              /\ ret.finalResult = [n |-> 0, body |-> "Pipeline completed"]
              /\ DOMAIN ret.context.results = {"analysis"}
              /\ ret.context.results["analysis"] = chatCalls[1].response

C9_Witness ==
    /\ InExecute /\ Returned
    /\ Has(ret.context.results, "final_summary")
    /\ Has(ret.context.results, "generated_code")
    /\ ret.finalResult = ret.context.results["final_summary"]
    /\ ret.finalResult # ret.context.results["generated_code"]

\* C10: in executeIntelligent, once the interpreter's chat call has
\* rejected, the run has returned success = false with the message
\* "Interpretation failed - cannot determine next steps", and no other
\* completion call (planner, plan step, supervisor, memory) was issued.
C10_InterpretationFailureIsTerminal ==
    (InIntelligent /\ chatCalls[1].outcome = "failed") =>
        /\ pc = "done"
        /\ Returned
        /\ ~ret.success
        /\ ret.finalResult = [n |-> 0, body |-> "Interpretation failed - cannot determine next steps"]
        /\ Len(chatCalls) = 1
        /\ chatCalls[1].role = "interpreter"
        /\ workflowPlan = << >>

C10_Witness ==
    /\ InIntelligent /\ Returned
    /\ chatCalls[1].outcome = "failed"
    /\ ret.context.errors = << AgentFailedMsg("interpreter") >>

-----------------------------------------------------------------------------
(* Observations of executeIntelligentOrchestration *)

\* the call is the chat call of the final aggregation by the supervisor
IsSupervisorCall(c) ==
    /\ c.purpose = "agent"
    /\ c.input.text = "Pipeline Completion Summary"

\* the call is the chat call of a step of the workflow loop: the step's own
\* invocation or its feedback re-invocation
IsPlanStepCall(c) ==
    /\ c.purpose = "agent"
    /\ c.step >= 1
    /\ c.input.text # "Pipeline Completion Summary"

\* the call is the chat call of a feedback re-invocation
IsIterationCall(c) == IsPlanStepCall(c) /\ c.input.feedback # NoText

SupervisorCalls == SelectSeq(chatCalls, IsSupervisorCall)

PlanStepCalls == SelectSeq(chatCalls, IsPlanStepCall)

\* the interpreter's chat call resolved
InterpretationSucceeded ==
    /\ InIntelligent
    /\ chatCalls[1].outcome = "ok"

\* the call has ended, by a return or by a throw
Ended == pc = "done"

\* C11 (as claimed): in every executeIntelligent run whose interpretation
\* succeeded, at most one supervisor call is ever issued, no plan-step call
\* is issued after it, and when the call has ended the supervisor has been
\* invoked exactly once, whatever the planner and the plan steps did.
C11_SupervisorAlwaysRuns ==
    InterpretationSucceeded =>
        /\ Len(SupervisorCalls) <= 1
        /\ \A c, d \in 1..Len(chatCalls) :
              (IsSupervisorCall(chatCalls[c]) /\ IsPlanStepCall(chatCalls[d])) => d < c
        /\ Ended => Len(SupervisorCalls) = 1

\* C12 (as claimed): no entry point raises because a completion call
\* failed: the error of the completion service is never what a call throws,
\* and a call on a valid pipeline id or any prompt that has ended after a
\* failed completion call has returned a result with success and
\* finalResult populated.
C12_CompletionFailuresAreData ==
    /\ ((InExecute \/ InMemory \/ InIntelligent) /\ ret.status = "thrown")
          => ret.error # ApiError
    /\ (/\ Ended
        /\ InIntelligent \/ PipelineFound(op.pipelineId)
        /\ Len(chatCalls) > 0
        /\ Outstanding.outcome = "failed") =>
            /\ Returned
            /\ ret.success \in BOOLEAN
            /\ ret.finalResult # NoText

\* C13 (as claimed): the interpretation handed to the planner, and embedded
\* in the supervisor's instructions, is the response of the interpreter's
\* chat call of this run.
C13_PlannerGetsInterpretation ==
    InIntelligent =>
        \A c \in 1..Len(chatCalls) :
            /\ chatCalls[c].purpose = "planner" =>
                  chatCalls[c].input.interpretation = chatCalls[1].response
            /\ IsSupervisorCall(chatCalls[c]) =>
                  chatCalls[c].input.embeds = chatCalls[1].response

\* the planner's chat call resolved with text that does not parse
FallbackUsed ==
    \E c \in 1..Len(chatCalls) :
        /\ chatCalls[c].purpose = "planner"
        /\ chatCalls[c].outcome = "ok"
        /\ chatCalls[c].response.body = "not json"

\* C14: in executeIntelligent, when the planner's response does not parse,
\* the plan is the three steps analysis, coder, judge in that order with
\* required = true, true, false and no iterative-feedback flag; each of
\* them is invoked at most once, in that order, and the run ends by
\* returning after one supervisor call.
C14_FallbackPlan ==
    (InIntelligent /\ FallbackUsed) =>
        /\ [k \in 1..Len(workflowPlan) |-> workflowPlan[k].agent]
              = << "analysis", "coder", "judge" >>
        /\ [k \in 1..Len(workflowPlan) |-> workflowPlan[k].required]
              = << TRUE, TRUE, FALSE >>
        /\ \A k \in 1..Len(workflowPlan) : ~workflowPlan[k].iterativeFeedback
        /\ \A c \in 1..Len(PlanStepCalls) :
              /\ PlanStepCalls[c].step = c
              /\ PlanStepCalls[c].role = << "analysis", "coder", "judge" >>[c]
              /\ ~IsIterationCall(PlanStepCalls[c])
        /\ Ended =>
              /\ Returned
              /\ Len(SupervisorCalls) = 1
              /\ IsSupervisorCall(chatCalls[Len(chatCalls)])
                    \/ (/\ chatCalls[Len(chatCalls)].purpose = "memory"
                        /\ IsSupervisorCall(chatCalls[Len(chatCalls) - 1]))

C14_Witness ==
    /\ InIntelligent /\ FallbackUsed /\ Returned
    /\ Len(PlanStepCalls) = 3
    /\ PlanStepCalls[2].outcome = "ok"
    /\ ContainsQualityIssue(PlanStepCalls[2].response)
    /\ PlanStepCalls[3].outcome = "failed"
    /\ ret.success

\* the plan-step calls issued after call c
LaterPlanStepCalls(c) == {d \in (c + 1)..Len(chatCalls) : IsPlanStepCall(chatCalls[d])}

C16_SuccessIsSupervisorSuccess ==
    (InterpretationSucceeded /\ Returned) =>
        /\ Len(SupervisorCalls) = 1
        /\ ret.success <=> SupervisorCalls[1].outcome = "ok"

\* every plan step failed, the supervisor succeeded
C16_Witness ==
    /\ InterpretationSucceeded /\ Returned
    /\ Len(workflowPlan) = 2
    /\ Len(PlanStepCalls) = 2
    /\ \A c \in 1..2 : PlanStepCalls[c].outcome = "failed"
    /\ SupervisorCalls[1].outcome = "ok"
    /\ ret.success
    /\ Len(ret.context.errors) = 2

\* calls of plan step k, in order
CallsOfStep(k) == SelectSeq(PlanStepCalls, LAMBDA c : c.step = k)

\* C17: for each planned step at most one feedback re-invocation is issued,
\* for the same role and after the step's own invocation, so a plan of n
\* steps causes at most 2n plan-step invocations; the output of a
\* re-invocation triggers no further one.
C17_FeedbackIsOneShot ==
    InIntelligent =>
        /\ Len(PlanStepCalls) <= 2 * Len(workflowPlan)
        /\ \A k \in 1..Len(workflowPlan) :
              /\ Len(CallsOfStep(k)) <= 2
              /\ Len(CallsOfStep(k)) >= 1 => ~IsIterationCall(CallsOfStep(k)[1])
              /\ Len(CallsOfStep(k)) = 2 =>
                    /\ IsIterationCall(CallsOfStep(k)[2])
                    /\ CallsOfStep(k)[2].role = CallsOfStep(k)[1].role

\* a re-invocation whose own output again contains a quality issue is
\* followed by the next plan step
C17_Witness ==
    /\ InIntelligent
    /\ Len(workflowPlan) = 2
    /\ Len(CallsOfStep(1)) = 2
    /\ CallsOfStep(1)[2].outcome = "ok"
    /\ ContainsQualityIssue(CallsOfStep(1)[2].response)
    /\ workflowPlan[1].feedbackOutput = ResultKey(workflowPlan[1].agent)
    /\ Len(CallsOfStep(2)) >= 1

\* C18 (as claimed): finalResult of executeIntelligent follows the two-key
\* convention over results, and after a run whose supervisor call resolved
\* it is the supervisor's response, not the placeholder.
C18_FinalResultIsDeliverable ==
    (InterpretationSucceeded /\ Returned) =>
        /\ ret.finalResult =
              IF "final_summary" \in DOMAIN ret.context.results
              THEN ret.context.results["final_summary"]
              ELSE IF "generated_code" \in DOMAIN ret.context.results
                   THEN ret.context.results["generated_code"]
                   ELSE [n |-> 0, body |-> "Workflow completed"]
        /\ (Len(SupervisorCalls) = 1 /\ SupervisorCalls[1].outcome = "ok") =>
              /\ ret.finalResult = SupervisorCalls[1].response
              /\ ret.finalResult # [n |-> 0, body |-> "Workflow completed"]

-----------------------------------------------------------------------------
(* Properties of pruneAgentMemories *)

InPrune == op.name = "pruneAgentMemories"

\* the pruning agent's chat call resolved with text that does not parse
PruneResponseUnparsable ==
    /\ InPrune /\ Ended
    /\ chatCalls[1].outcome = "ok"
    /\ chatCalls[1].response.body = "not json"

RECURSIVE MemoryCount(_)
\* number of memories in the map
MemoryCount(groups) ==
    IF Len(groups) = 0 THEN 0
    ELSE Len(groups[1].memories) + MemoryCount(Tail(groups))

\* position of the k-th memory of group g in the flattened list
FlatIndex(groups, g, k) == MemoryCount(SubSeq(groups, 1, g - 1)) + k

\* C19: when the pruning agent's response cannot be parsed, prune returns
\* as relevantMemories the first min(5, n) entries of the flattened list
\* and as prunedMemories the remaining ones, in flattened order (map
\* order, then list order, each entry tagged with its agent), so that the
\* two together are the whole list with nothing lost or duplicated, with
\* the fixed contextSummary and the one fixed recommendation.
C19_PruneFallback ==
    PruneResponseUnparsable =>
        LET kept == ret.relevantMemories
            dropped == ret.prunedMemories
            both == kept \o dropped
            n == MemoryCount(agentMemories)
        IN  /\ Returned
            /\ Len(kept) = IF n < 5 THEN n ELSE 5
            /\ Len(dropped) = n - Len(kept)
            /\ \A g \in 1..Len(agentMemories) :
                  \A k \in 1..Len(agentMemories[g].memories) :
                      /\ both[FlatIndex(agentMemories, g, k)].agent = agentMemories[g].agent
                      /\ both[FlatIndex(agentMemories, g, k)].content
                            = agentMemories[g].memories[k].content
            /\ \A a, b \in 1..Len(both) : both[a] = both[b] => a = b
            /\ ret.contextSummary =
                  [n |-> 0, body |-> "Automatic pruning performed due to parsing error"]
            /\ ret.cleanupRecommendations =
                  << [n |-> 0, body |-> "Implement better JSON parsing for memory analysis"] >>

\* six memories of two agents: five kept, one pruned
C19_Witness ==
    /\ PruneResponseUnparsable
    /\ Len(agentMemories) = 2
    /\ MemoryCount(agentMemories) = 6
    /\ Len(ret.relevantMemories) = 5
    /\ Len(ret.prunedMemories) = 1
    /\ ret.prunedMemories[1].agent = AgentName("coder")

\* C20: whatever text the pruning agent's chat call resolves with, prune
\* returns a result whose four fields are populated: it throws nothing.
C20_PruneNeverRaisesOnContent ==
    (InPrune /\ Ended /\ chatCalls[1].outcome = "ok") =>
        /\ Returned
        /\ DOMAIN ret = {"status"} \cup PruneFields
        /\ ret.contextSummary # NoText

\* a parsed payload that holds none of the fields, and the JSON value null
C20_Witness ==
    /\ InPrune /\ Returned
    /\ MemoryCount(agentMemories) > 0
    /\ \/ /\ chatCalls[1].response.body = "json"
          /\ ret.relevantMemories = << >>
          /\ ret.contextSummary = FixedText("Memory analysis completed")
       \/ /\ chatCalls[1].response.body = "json null"
          /\ ret.contextSummary = FixedText("Automatic pruning performed due to parsing error")

-----------------------------------------------------------------------------
(* Several calls on one orchestrator *)

InAnalyze == op.name = "analyzeMemoriesForPipeline"

\* this transition is the call of analyzeMemoriesForPipeline
AnalyzeCalled == pc = "idle" /\ op'.name = "analyzeMemoriesForPipeline"

\* the memories the store holds under the keys whose text starts with
\* "pipeline-" followed by the id, in store order
FoundUnder(pipelineId) ==
    Flat(SelectSeq(memoryStore,
                   LAMBDA e : StartsWith(KeyText(e.key), KeyPrefix(pipelineId))))

\* groups holds the memories found, one group per agentRole, each group in
\* the order found
Regrouped(groups, found) ==
    /\ \A g \in 1..Len(groups) :
          /\ groups[g].memories # << >>
          /\ groups[g].memories = SelectSeq(found, LAMBDA m : m.agentRole = groups[g].agent)
    /\ \A g, h \in 1..Len(groups) : groups[g].agent = groups[h].agent => g = h
    /\ \A k \in 1..Len(found) : \E g \in 1..Len(groups) : groups[g].agent = found[k].agentRole

\* C21: analyzeMemories returns null exactly when the store holds no memory
\* under any key starting with "pipeline-" + pipelineId, and then issues no
\* completion call; otherwise it regroups the memories found by agentRole,
\* issues the pruning call with userPrompt as both the original and the
\* current prompt, and returns what pruneAgentMemories returns.
C21_AnalyzeMemories ==
    /\ [][AnalyzeCalled =>
            LET found == FoundUnder(op'.pipelineId)
            IN  /\ (ret' = Null) <=> (found = << >>)
                /\ found = << >> => (pc' = "done" /\ chatCalls' = chatCalls)
                /\ found # << >> =>
                      /\ pc' = "pruneChat"
                      /\ Regrouped(agentMemories', found)
                      /\ Len(chatCalls') = Len(chatCalls) + 1
                      /\ LET call == chatCalls'[Len(chatCalls')]
                         IN  /\ call.purpose = "prune"
                             /\ call.input.original = op'.userPrompt
                             /\ call.input.current = op'.userPrompt
                             /\ call.input.memories =
                                   SliceTo(AllMemories(agentMemories'), PromptShows)]_vars
    /\ []((InAnalyze /\ Ended /\ ret # Null) =>
            LET call == chatCalls[Len(chatCalls)]
            IN  \/ call.outcome = "failed" /\ ret = ServiceError
                \/ /\ call.outcome = "ok"
                   /\ ret = IF call.response.body = "not json"
                            THEN FallbackAnalysis(AllMemories(agentMemories))
                            ELSE ParsedAnalysis([body |-> "json", fields |-> PruneFields],
                                                call.response))

\* a query with the empty id finds the memories of all three earlier runs:
\* the coder's two memories, stored under different keys, form one group
C21_Witness ==
    /\ InAnalyze /\ Ended /\ Returned /\ ret # Null
    /\ op.pipelineId = ""
    /\ Len(agentMemories) = 4
    /\ \E g \in 1..Len(agentMemories) :
          agentMemories[g].agent = "coder" /\ Len(agentMemories[g].memories) = 2


\* this transition is the return of an executePipelineWithMemory run that
\* reached storeAgentMemories
MemoryRunStores ==
    /\ op'.name = "executePipelineWithMemory"
    /\ pc # "done" /\ pc' = "done"
    /\ ret'.status = "returned"

\* C22 (as claimed): the memory store is append-only with one key per run:
\* every run that reaches storage adds exactly one entry, behind the entries
\* the store held, which stay as they were, even when two runs finish at
\* the same clock value; no other step changes the store.
C22_StoreAppendOnly ==
    [][IF MemoryRunStores
       THEN /\ Len(memoryStore') = Len(memoryStore) + 1
            /\ SubSeq(memoryStore', 1, Len(memoryStore)) = memoryStore
       ELSE memoryStore' = memoryStore]_vars


\* the memories with the time of their creation left out
Untimed(groups) ==
    [g \in 1..Len(groups) |->
        [agent |-> groups[g].agent,
         memories |-> [k \in 1..Len(groups[g].memories) |->
                          [groups[g].memories[k] EXCEPT !.timestamp = 0]]]]

RECURSIVE RunAlone(_, _, _, _, _, _)
\* What the step loop of executePipeline (withMemory FALSE) or of
\* executePipelineWithMemory (withMemory TRUE) leaves from step k on, as a
\* function of nothing but the steps and the outcomes calls[c], calls[c+1],
\* ... of the run's own completion calls: acc holds the context, the
\* execution log and the agent memories so far.
RunAlone(withMemory, steps, k, c, acc, calls) ==
    IF k > Len(steps) \/ c > Len(calls) THEN acc
    ELSE LET role == steps[k].role
             entered == [acc EXCEPT
                            !.context.stepCount = k,
                            !.executionLog = Append(@, LogExecuting(k, Len(steps), role))]
         IN  IF calls[c].outcome = "ok"
             THEN LET stored == [entered EXCEPT !.context.results =
                                    StoreResult(@, steps[k].outputKey, calls[c].response)]
                  IN  IF withMemory /\ steps[k].outputKey # NoKey
                      THEN IF c + 1 > Len(calls) THEN stored
                           ELSE LET memory == calls[c + 1]
                                    parsed == memory.outcome = "ok" /\ memory.response.body = "json"
                                    noted ==
                                       IF parsed
                                       THEN [stored EXCEPT
                                               !.agentMemories =
                                                   PushMemory(@, AgentName(role),
                                                       [agentRole |-> role,
                                                        memoryType |-> getMemoryTypeForRole(role),
                                                        content |-> memory.response,
                                                        timestamp |-> 0]),
                                               !.executionLog = @ \o
                                                   << LogMemoryGenerated(role), LogCompleted(role) >>]
                                       ELSE [stored EXCEPT
                                               !.executionLog = @ \o
                                                   << LogMemoryFailed(role,
                                                         IF memory.outcome = "ok" THEN "SyntaxError"
                                                         ELSE ApiError),
                                                      LogCompleted(role) >>]
                                IN  RunAlone(withMemory, steps, k + 1, c + 2, noted, calls)
                      ELSE RunAlone(withMemory, steps, k + 1, c + 1,
                               [stored EXCEPT !.executionLog = Append(@, LogCompleted(role))],
                               calls)
             ELSE LET failed == [entered EXCEPT
                                    !.context.errors = Append(@, StepFailedMsg(role)),
                                    !.executionLog = Append(@, LogError(StepFailedMsg(role)))]
                  IN  IF ~withMemory /\ HaltsPipeline(role) THEN failed
                      ELSE RunAlone(withMemory, steps, k + 1, c + 1, failed, calls)

\* the call with these locals is a finished run of one of the two executors
FinishedRun(frame) ==
    /\ frame.op.name \in {"executePipeline", "executePipelineWithMemory"}
    /\ frame.pc = "done"
    /\ frame.ret.status = "returned"

\* every response the locals hold was given to a call of run r
OwnResponses(frame, r) ==
    /\ \A key \in DOMAIN frame.context.results : frame.context.results[key].run = r
    /\ \A g \in 1..Len(frame.agentMemories) :
          \A k \in 1..Len(frame.agentMemories[g].memories) :
              frame.agentMemories[g].memories[k].content.run = r

C24_OneCallOutstanding ==
    \A c \in 1..Len(chatCalls) :
        chatCalls[c].outcome = "pending" => c = Len(chatCalls)

\* a step's call is outstanding behind the resolved memory-generation call
\* of the step before it
C24_Witness ==
    /\ InMemory
    /\ Len(chatCalls) >= 3
    /\ Outstanding.outcome = "pending"
    /\ Outstanding.purpose = "step"
    /\ chatCalls[Len(chatCalls) - 1].purpose = "memory"
    /\ chatCalls[Len(chatCalls) - 1].step = Outstanding.step - 1
    /\ chatCalls[Len(chatCalls) - 1].outcome = "ok"


\* the store holds the memory under some key
InStore(memory) ==
    \E e \in 1..Len(memoryStore) :
        \E j \in 1..Len(memoryStore[e].memories) : memoryStore[e].memories[j] = memory

\* C25 (as claimed): once executeWithMemory or executeIntelligent has
\* returned, every memory of the agentMemories it returned is in the memory
\* store.
C25_ReturnedMemoriesAreStored ==
    ((InMemory \/ InIntelligent) /\ Ended /\ Returned) =>
        \A g \in 1..Len(ret.agentMemories) :
            \A k \in 1..Len(ret.agentMemories[g].memories) :
                InStore(ret.agentMemories[g].memories[k])


\* C26 (as claimed): in execute and executeWithMemory, whenever the input
\* builder of a step runs, every results key it reads was written earlier
\* in the same run by a step whose completion call resolved.
C26_InputsWereWritten ==
    (InExecute \/ InMemory) =>
        \A c \in 1..Len(chatCalls) :
            chatCalls[c].purpose = "step" =>
                \A key \in Steps[chatCalls[c].step].reads :
                    \E b \in 1..(c - 1) :
                        /\ chatCalls[b].purpose = "step"
                        /\ chatCalls[b].outcome = "ok"
                        /\ Steps[chatCalls[b].step].outputKey = key


\* the call with these locals is a getAvailablePipelines call
ListedPipelines(frame) == frame.op.name = "getAvailablePipelines" /\ frame.pc = "done"

\* C27: getAvailablePipelines returns exactly the registered pipelines with
\* enabled = true, each once; two calls return equal lists; and the call
\* changes neither the registry nor the memory store nor any other call's
\* locals.
C27_ListPipelines ==
    /\ [](\A r \in 1..MaxRuns :
            ListedPipelines(Frames[r]) =>
                LET listed == Frames[r].ret.pipelines
                IN  /\ Frames[r].ret.status = "returned"
                    /\ {listed[k] : k \in 1..Len(listed)} =
                          {pipelines[id] : id \in {x \in DOMAIN pipelines : pipelines[x].enabled}}
                    /\ \A j, k \in 1..Len(listed) : listed[j] = listed[k] => j = k
                    /\ \A q \in 1..MaxRuns :
                          ListedPipelines(Frames[q]) => Frames[q].ret = Frames[r].ret)
    /\ [][(pc = "idle" /\ op'.name = "getAvailablePipelines") =>
             /\ pipelines' = pipelines
             /\ memoryStore' = memoryStore
             /\ runs' = runs
             /\ chatCalls' = chatCalls]_vars

\* two calls have returned the three enabled pipelines of a registry that
\* holds a disabled one
C27_Witness ==
    /\ \A r \in 1..2 : ListedPipelines(Frames[r])
    /\ Len(ret.pipelines) = 3
    /\ "disabled" \in DOMAIN pipelines
    /\ \A k \in 1..Len(ret.pipelines) : ret.pipelines[k].id # "disabled"


InAnalyzeWorkflowChoice(frame) == frame.op.name = "analyzeWorkflowChoice"

\* C28: analyzeWorkflowChoice executes nothing: it issues exactly one
\* completion call, which is no agent step, builds no context, log or
\* memory, returns the text of that call unchanged when the call resolves,
\* and leaves the pipeline registry and the memory store as they were.
C28_WorkflowChoiceExecutesNothing ==
    /\ [](\A r \in 1..MaxRuns :
            InAnalyzeWorkflowChoice(Frames[r]) =>
                LET frame == Frames[r]
                IN  /\ Len(frame.chatCalls) = 1
                    /\ frame.chatCalls[1].purpose = "workflow-analysis"
                    /\ frame.context = NoContext
                    /\ frame.executionLog = << >>
                    /\ frame.agentMemories = << >>
                    /\ (frame.pc = "done" /\ frame.chatCalls[1].outcome = "ok") =>
                          /\ frame.ret.status = "returned"
                          /\ frame.ret.text = frame.chatCalls[1].response)
    /\ [][(op'.name = "analyzeWorkflowChoice" /\ me' = me) =>
             /\ pipelines' = pipelines
             /\ memoryStore' = memoryStore
             /\ runs' = runs]_vars

\* the call has returned the response text on an orchestrator whose store
\* holds the memories of earlier runs
C28_Witness ==
    /\ InAnalyzeWorkflowChoice(CurrentFrame)
    /\ Ended /\ Returned
    /\ ret.text.body = "text"
    /\ ret.text = chatCalls[1].response
    /\ memoryStore = EarlierStore


InRelevance == op.name = "calculateMemoryRelevance"

\* C29: relevance scoring is monotonic and clamped: for the same memory
\* content, a prompt extended by further words that occur in the serialized
\* content scores no lower than the prompt before, and no score exceeds 10
\* however many words of the prompt occur in the content.
C29_RelevanceMonotonicAndClamped ==
    /\ [](InRelevance => ret.relevanceScore \in 0..10)
    /\ [][(/\ InRelevance
           /\ op'.name = "calculateMemoryRelevance"
           /\ op'.memoryContent = op.memoryContent
           /\ Len(op'.userPrompt) > Len(op.userPrompt)
           /\ SubSeq(op'.userPrompt, 1, Len(op.userPrompt)) = op.userPrompt
           /\ \A k \in (Len(op.userPrompt) + 1)..Len(op'.userPrompt) :
                 op'.userPrompt[k] \in op.memoryContent)
          => ret'.relevanceScore >= ret.relevanceScore]_vars

\* a prompt with eleven words that count has been extended: the score is 10
C29_Witness ==
    /\ InRelevance
    /\ UnclampedRelevance(op.memoryContent, op.userPrompt) = 11
    /\ ret.relevanceScore = 10


\* the call is the interpreter's chat call
IsInterpreterCall(c) == c.purpose = "agent" /\ c.step = 0

IsPlannerCall(c) == c.purpose = "planner"

\* C30: a run of executeIntelligent goes through interpretation, planning,
\* execution and supervision strictly forward: the interpreter, the planner
\* and the supervisor are each invoked at most once, in this order; a plan
\* step is invoked only after the planner's call has returned and never
\* after the supervisor has started; and when every completion call
\* settles, the run ends.
C30_PhasesForward ==
    /\ [](InIntelligent =>
            /\ Len(SelectSeq(chatCalls, IsInterpreterCall)) <= 1
            /\ Len(SelectSeq(chatCalls, IsPlannerCall)) <= 1
            /\ Len(SupervisorCalls) <= 1
            /\ \A c, d \in 1..Len(chatCalls) :
                  /\ (IsInterpreterCall(chatCalls[c]) /\ ~IsInterpreterCall(chatCalls[d]))
                        => c < d
                  /\ (IsPlannerCall(chatCalls[c]) /\ IsPlanStepCall(chatCalls[d]))
                        => (c < d /\ chatCalls[c].outcome = "ok")
                  /\ (IsPlannerCall(chatCalls[c]) /\ IsSupervisorCall(chatCalls[d]))
                        => c < d
                  /\ (IsSupervisorCall(chatCalls[c]) /\ IsPlanStepCall(chatCalls[d]))
                        => d < c
            /\ (\E d \in 1..Len(chatCalls) :
                   IsPlanStepCall(chatCalls[d]) \/ IsSupervisorCall(chatCalls[d]))
                  => \E c \in 1..Len(chatCalls) : IsPlannerCall(chatCalls[c]))
    /\ (InIntelligent ~> Ended)

\* the run has ended after all four phases: a plan step with its feedback
\* re-invocation lies between the planner's call and the supervisor's
C30_Witness ==
    /\ InIntelligent /\ Ended /\ Returned
    /\ Len(SupervisorCalls) = 1
    /\ \E d \in 1..Len(chatCalls) : IsIterationCall(chatCalls[d])
    /\ Len(PlanStepCalls) >= 3


-----------------------------------------------------------------------------
(* Feedback, errors and memories of a run *)

\* the agent calls up to call c that resolved and stored under key
WritersOf(key, c) ==
    {b \in 1..c : /\ chatCalls[b].purpose = "agent"
                  /\ chatCalls[b].outcome = "ok"
                  /\ ResultKey(chatCalls[b].role) = key}

\* the call whose response results holds under key once call c has settled
LastWriter(key, c) == CHOOSE b \in WritersOf(key, c) : \A w \in WritersOf(key, c) : w <= b

\* the agent calls issued after call c
LaterAgentCalls(c) == {d \in (c + 1)..Len(chatCalls) : chatCalls[d].purpose = "agent"}

\* the agent call issued next after call c
NextAgentCall(c) == CHOOSE d \in LaterAgentCalls(c) : \A e \in LaterAgentCalls(c) : d <= e

\* call c is a planned step's own invocation after which the workflow loop
\* has gone on
OwnInvocationPassed(c) ==
    /\ IsPlanStepCall(chatCalls[c])
    /\ ~IsIterationCall(chatCalls[c])
    /\ chatCalls[c].outcome # "pending"
    /\ (LaterAgentCalls(c) # {} \/ Ended)

\* the own invocation c of a planned step was followed by the step's
\* feedback re-invocation
Reinvoked(c) ==
    /\ LaterAgentCalls(c) # {}
    /\ IsIterationCall(chatCalls[NextAgentCall(c)])
    /\ chatCalls[NextAgentCall(c)].step = chatCalls[c].step

\* C31: in executeIntelligent the feedback re-invocation of a planned step
\* is issued if and only if the step was not a failed required step, it
\* declares iterativeFeedback, results holds its feedback output key and
\* the text under the key reports an error, issues or a needed fix; the
\* re-invocation goes to the same role with the step's instructions and
\* that text appended.
C31_FeedbackCondition ==
    InIntelligent =>
        \A c \in 1..Len(chatCalls) :
            OwnInvocationPassed(c) =>
                LET step == workflowPlan[chatCalls[c].step]
                    key == step.feedbackOutput
                    due == /\ ~(chatCalls[c].outcome = "failed" /\ step.required)
                           /\ step.iterativeFeedback
                           /\ WritersOf(key, c) # {}
                           /\ chatCalls[LastWriter(key, c)].response.body = "text with issues"
                IN  /\ Reinvoked(c) <=> due
                    /\ Reinvoked(c) =>
                          /\ chatCalls[NextAgentCall(c)].role = step.agent
                          /\ chatCalls[NextAgentCall(c)].input.text = step.instructions.text
                          /\ chatCalls[NextAgentCall(c)].input.embeds = step.instructions.embeds
                          /\ chatCalls[NextAgentCall(c)].input.feedback =
                                chatCalls[LastWriter(key, c)].response

\* the judge found issues, and the coder that follows, whose step reads the
\* judge's result as feedback, was re-invoked with the judge's text
C31_Witness ==
    /\ InIntelligent /\ Ended
    /\ Len(workflowPlan) = 2
    /\ workflowPlan[1].agent = "judge"
    /\ workflowPlan[2].feedbackOutput = "judge_result"
    /\ Len(CallsOfStep(2)) = 2
    /\ CallsOfStep(2)[1].outcome = "ok"
    /\ CallsOfStep(2)[2].input.feedback = CallsOfStep(1)[1].response
    /\ Len(CallsOfStep(1)) = 1


\* the step and agent invocations of the run whose completion call rejected
FailedInvocations ==
    SelectSeq(chatCalls, LAMBDA c : c.purpose \in {"step", "agent"} /\ c.outcome = "failed")

\* C32: within a run context.errors is append-only, every earlier value
\* being a prefix of the later one, and its length is the number of step or
\* agent invocations whose completion call has failed so far; a failure of
\* memory generation or of the planner's call adds nothing to it.
C32_ErrorsAppendOnly ==
    /\ []((InExecute \/ InMemory \/ InIntelligent) =>
            Len(context.errors) = Len(FailedInvocations))
    /\ [][(op' = op /\ me' = me) =>
             /\ Len(context'.errors) >= Len(context.errors)
             /\ SubSeq(context'.errors, 1, Len(context.errors)) = context.errors
             /\ (MemoryGenerationFails \/ pc = "plannerChat") =>
                    context'.errors = context.errors]_vars

\* two agent invocations and one memory generation of an executeIntelligent
\* run have failed: errors holds the two
C32_Witness ==
    /\ InIntelligent
    /\ Len(context.errors) = 2
    /\ Len(FailedInvocations) = 2
    /\ \E c \in 1..Len(chatCalls) :
          chatCalls[c].purpose = "memory" /\ chatCalls[c].outcome = "failed"


\* memory m was generated for the successful step invocation chatCalls[c]
GeneratedFor(m, c) ==
    /\ c < Len(chatCalls)
    /\ chatCalls[c].purpose = "step"
    /\ chatCalls[c].outcome = "ok"
    /\ chatCalls[c].role = m.agentRole
    /\ Steps[chatCalls[c].step].outputKey # NoKey
    /\ chatCalls[c + 1].purpose = "memory"
    /\ chatCalls[c + 1].outcome = "ok"
    /\ chatCalls[c + 1].response.body = "json"
    /\ chatCalls[c + 1].response = m.content

\* C33: in executeWithMemory agentMemories holds at most one memory per step
\* invocation; a memory with agentRole r is there only if a step with role
\* r and a declared outputKey completed successfully earlier in the run and
\* its memory generation succeeded, so a failed step and a step without
\* outputKey contribute none; the memories of role r are grouped under the
\* key r + "-agent".
C33_MemoriesPerStep ==
    InMemory =>
        /\ MemoryCount(agentMemories) <= Len(StepCalls)
        /\ \A g \in 1..Len(agentMemories) :
              \A k \in 1..Len(agentMemories[g].memories) :
                  LET m == agentMemories[g].memories[k]
                  IN  /\ agentMemories[g].agent = << m.agentRole, "-agent" >>
                      /\ \E c \in 1..Len(chatCalls) : GeneratedFor(m, c)
                      /\ \A h \in 1..Len(agentMemories) :
                            \A j \in 1..Len(agentMemories[h].memories) :
                                agentMemories[h].memories[j].content = m.content
                                    => (h = g /\ j = k)
        /\ \A g, h \in 1..Len(agentMemories) :
              agentMemories[g].agent = agentMemories[h].agent => g = h

\* the run of the pipeline whose first step declares no outputKey has
\* returned after two successful steps with the coder's memory only
C33_Witness ==
    /\ InMemory /\ Returned
    /\ op.pipelineId = "keyless"
    /\ Len(StepCalls) = 2
    /\ \A c \in 1..2 : StepCalls[c].outcome = "ok"
    /\ Len(agentMemories) = 1
    /\ agentMemories[1].agent = << "coder", "-agent" >>
    /\ Len(agentMemories[1].memories) = 1


\* the positions of the prompt's tokens that are longer than 3 characters
\* and occur in the serialized content, letter case set aside
CountedTokens(memoryContent, userPrompt) ==
    {k \in 1..Len(userPrompt) :
        /\ WordLength(userPrompt[k]) > 3
        /\ \E text \in memoryContent :
              IsSubstring(ToLowerCase(userPrompt[k]), ToLowerCase(text))}

\* C34: relevanceScore is min(c, 10), c being the number of
\* whitespace-separated tokens of the prompt, counted with repetition, that
\* are longer than 3 characters and occur case-insensitively as a substring
\* of the serialized memory content; so it is an integer in 0..10, and 0
\* when no token of the prompt is longer than 3 characters.
C34_RelevanceIsClampedCount ==
    InRelevance =>
        LET c == Cardinality(CountedTokens(op.memoryContent, op.userPrompt))
        IN  /\ ret.relevanceScore = IF c < 10 THEN c ELSE 10
            /\ ret.relevanceScore \in 0..10
            /\ (\A k \in 1..Len(op.userPrompt) : WordLength(op.userPrompt[k]) <= 3)
                  => ret.relevanceScore = 0

\* the token "json", twice in the prompt, occurs in the content inside
\* "jsonl" and counts twice
C34_Witness ==
    /\ InRelevance
    /\ op.memoryContent = {"api", "jsonl"}
    /\ op.userPrompt = << "json", "json", "api" >>
    /\ ret.relevanceScore = 2


InRetention == op.name = "determineRetentionFlags"

\* the flags of a returned list, as a set
FlagSet(flags) == {flags[k] : k \in 1..Len(flags)}

\* C35: retentionFlags is exactly the union of the flags of the rules that
\* apply: the two interpretation flags iff the role is "interpreter", the
\* two implementation flags iff it is "coder" or "analysis", the two quality
\* flags iff it contains "judge", and problem-resolution iff the serialized
\* content contains "error", "bug" or "fix" with that letter case; no flag
\* occurs twice and there is no other flag.
C35_RetentionFlagsAreUnionOfRules ==
    InRetention =>
        LET flags == ret.retentionFlags
            has(flag) == flag \in FlagSet(flags)
            problem == op.memoryContent \cap {"error", "bug", "fix", "debug", "prefix"} # {}
        IN  /\ has("core-interpretation") <=> op.agentRole = "interpreter"
            /\ has("permanent-retention") <=> op.agentRole = "interpreter"
            /\ has("implementation-patterns") <=> op.agentRole \in {"coder", "analysis"}
            /\ has("technical-decisions") <=> op.agentRole \in {"coder", "analysis"}
            /\ has("quality-insights") <=> op.agentRole \in {"judge", "quality-judge"}
            /\ has("error-prevention") <=> op.agentRole \in {"judge", "quality-judge"}
            /\ has("problem-resolution") <=> problem
            /\ FlagSet(flags) \subseteq
                   {"core-interpretation", "permanent-retention",
                    "implementation-patterns", "technical-decisions",
                    "quality-insights", "error-prevention", "problem-resolution"}
            /\ Len(flags) = Cardinality(FlagSet(flags))

\* a quality-judge whose content holds "Error" and "debug" gets the quality
\* flags and, for "debug" only, problem-resolution
C35_Witness ==
    /\ InRetention
    /\ op.agentRole = "quality-judge"
    /\ op.memoryContent = {"Error", "debug"}
    /\ ret.retentionFlags = << "quality-insights", "error-prevention", "problem-resolution" >>


InRobust == op.name = "robustRequest"

\* the completion attempts of the call, in the order they were made
Attempts == SelectSeq(chatCalls, LAMBDA c : c.purpose = "robust")

\* the backoff waits of the call, in the order they were started
Backoffs == SelectSeq(chatCalls, LAMBDA c : c.purpose = "backoff")

\* C36: robustRequest(request, maxRetries) makes at most maxRetries
\* completion attempts, one after the other; it returns the first successful
\* response and makes no attempt after it; it raises the "all attempts
\* failed" error only after exactly maxRetries failed attempts; every failed
\* attempt is followed by a backoff wait, and the wait doubles from one
\* attempt to the next.
C36_RobustRequest ==
    /\ [](InRobust =>
            /\ Len(Attempts) <= op.maxRetries
            /\ \A k \in 1..Len(Attempts) :
                  /\ Attempts[k].step = k
                  /\ Attempts[k].input = op.request
                  /\ k < Len(Attempts) => Attempts[k].outcome = "failed"
            /\ \A k \in 1..Len(chatCalls) :
                  /\ chatCalls[k].outcome = "pending" => k = Len(chatCalls)
                  /\ (chatCalls[k].purpose = "robust" /\ chatCalls[k].outcome = "failed") =>
                        /\ k < Len(chatCalls)
                        /\ chatCalls[k + 1].purpose = "backoff"
                        /\ chatCalls[k + 1].step = chatCalls[k].step
                  /\ chatCalls[k].purpose = "backoff" =>
                        /\ k > 1
                        /\ chatCalls[k - 1].purpose = "robust"
                        /\ chatCalls[k - 1].outcome = "failed"
            /\ \A k \in 1..Len(Backoffs) :
                  /\ Backoffs[k].input > 0
                  /\ k > 1 => Backoffs[k].input = 2 * Backoffs[k - 1].input
            /\ ret.status = "returned" =>
                  /\ Attempts # << >>
                  /\ Attempts[Len(Attempts)].outcome = "ok"
                  /\ ret.response = Attempts[Len(Attempts)].response
                  /\ chatCalls[Len(chatCalls)] = Attempts[Len(Attempts)]
            /\ ret.status = "thrown" =>
                  /\ ret.error = "all attempts failed"
                  /\ Len(Attempts) = op.maxRetries
                  /\ \A k \in 1..Len(Attempts) : Attempts[k].outcome = "failed"
                  /\ \A k \in 1..Len(Backoffs) : Backoffs[k].outcome = "ok")
    /\ [][InRobust =>
             /\ Len(chatCalls') >= Len(chatCalls)
             /\ \A k \in 1..Len(chatCalls) :
                   chatCalls[k].outcome # "pending" => chatCalls'[k] = chatCalls[k]
             /\ ret.status # "pending" => chatCalls' = chatCalls]_vars

\* three attempts have failed, each followed by its wait of 2, 4 and 8
\* seconds, and the error is raised
C36_Witness ==
    /\ InRobust
    /\ op.maxRetries = 3
    /\ ret.status = "thrown"
    /\ Len(Attempts) = 3
    /\ [k \in 1..3 |-> Backoffs[k].input] = << 2000, 4000, 8000 >>

\* the second attempt succeeds and is returned; no third attempt is made
C36_ReturnsFirstSuccess ==
    /\ InRobust
    /\ op.maxRetries = 3
    /\ ret.status = "returned"
    /\ Len(Attempts) = 2
    /\ Len(Backoffs) = 1


\* the steps of the run whose completion call succeeded
SucceededSteps == {k \in 1..Len(StepCalls) : StepCalls[k].outcome = "ok"}

\* C37: when execute returns, the keys of context.results are exactly the
\* output keys of the steps whose completion call succeeded, each holding
\* that call's response; a failed step, and a step skipped after the
\* supervisor failed, leave no entry; and a value once stored is not changed
\* by a later step.
C37_ResultsAreSucceededOutputs ==
    /\ []((InExecute /\ Returned) =>
            LET results == ret.context.results
            IN  /\ DOMAIN results = {Steps[k].outputKey : k \in SucceededSteps} \ {NoKey}
                /\ \A k \in 1..Len(Steps) :
                      IF k \in SucceededSteps
                      THEN Steps[k].outputKey # NoKey =>
                              results[Steps[k].outputKey] = StepCalls[k].response
                      ELSE ~Has(results, Steps[k].outputKey))
    /\ [][(InExecute /\ op' = op) =>
             \A key \in DOMAIN context.results :
                /\ Has(context'.results, key)
                /\ context'.results[key] = context.results[key]]_vars

\* the coder succeeded, the supervisor failed and the judge was skipped:
\* results holds the coder's key only
C37_Witness ==
    /\ InExecute
    /\ Returned
    /\ op.pipelineId = "supervised"
    /\ Len(StepCalls) = 2
    /\ StepCalls[1].outcome = "ok"
    /\ StepCalls[2].outcome = "failed"
    /\ DOMAIN ret.context.results = {"generated_code"}


\* the entries of executionLog that announce a step or tell its outcome
StepEntries ==
    SelectSeq(executionLog,
              LAMBDA e : e.t \in {"Executing step", "Step completed successfully", "ERROR"})

\* entry tells the outcome of a step with this role
IsOutcomeOf(entry, role) ==
    \/ entry = LogCompleted(role)
    \/ entry = LogError(StepFailedMsg(role))

\* C38: in execute and executeWithMemory executionLog records the attempted
\* steps in pipeline order, each as one "Executing step i/n" entry followed
\* by exactly one outcome entry of that step, "completed successfully" or
\* "ERROR", never both; the outcome entry of a step precedes the
\* "Executing" entry of the next step.
C38_LogPairsPerStep ==
    /\ [](((InExecute \/ InMemory) /\ op.pipelineId \in DOMAIN pipelines) =>
            /\ \A j \in 1..Len(StepEntries) :
                  LET k == (j + 1) \div 2
                  IN  /\ k <= Len(Steps)
                      /\ IF j % 2 = 1
                         THEN StepEntries[j] = LogExecuting(k, Len(Steps), Steps[k].role)
                         ELSE IsOutcomeOf(StepEntries[j], Steps[k].role)
            /\ Len(StepEntries) \in {2 * Len(StepCalls), 2 * Len(StepCalls) - 1}
            /\ \A k \in 1..Len(StepCalls) :
                  2 * k <= Len(StepEntries) =>
                     (StepEntries[2 * k] = LogCompleted(Steps[k].role)
                         <=> StepCalls[k].outcome = "ok")
            /\ Returned => Len(StepEntries) = 2 * Len(StepCalls))
    /\ [][((InExecute \/ InMemory) /\ op' = op) =>
             /\ Len(executionLog') >= Len(executionLog)
             /\ SubSeq(executionLog', 1, Len(executionLog)) = executionLog]_vars

\* executeWithMemory has returned: the memory of one step could not be
\* generated and the step is logged as completed, another step failed and
\* is logged as ERROR
C38_Witness ==
    /\ InMemory
    /\ Returned
    /\ op.pipelineId = "supervised"
    /\ Len(StepEntries) = 6
    /\ \E j \in 1..Len(executionLog) : executionLog[j].t = "Memory generation failed"
    /\ \E j \in 1..Len(executionLog) : executionLog[j].t = "ERROR"


\* C39 (as claimed): in executeIntelligent a planned step is re-invoked for
\* feedback only when the step's own invocation in this run succeeded, and
\* the text inspected and handed back is the response of that invocation,
\* never a value left in results by an earlier step or invocation.
C39_FeedbackFromOwnInvocation ==
    InIntelligent =>
        \A c \in 1..Len(chatCalls) :
            (OwnInvocationPassed(c) /\ Reinvoked(c)) =>
                /\ chatCalls[c].outcome = "ok"
                /\ chatCalls[NextAgentCall(c)].input.feedback = chatCalls[c].response

\* the own invocation of a step that is not required has failed, and the
\* step is re-invoked with the text an earlier step left in results
C39_StaleFeedback ==
    /\ InIntelligent
    /\ \E c \in 1..Len(chatCalls) :
          /\ OwnInvocationPassed(c)
          /\ Reinvoked(c)
          /\ chatCalls[c].outcome = "failed"
          /\ \E b \in 1..(c - 1) :
                /\ chatCalls[b].step # chatCalls[c].step
                /\ chatCalls[NextAgentCall(c)].input.feedback = chatCalls[b].response


\* C40 (as claimed): analyzeMemories(P, prompt) takes into account only
\* memories recorded by runs of pipeline P; where one pipeline id is a
\* prefix of another, the memories stored by runs of the longer id are not
\* included in the analysis of the shorter id.
C40_OnlyMemoriesOfThePipeline ==
    [][AnalyzeCalled =>
          \A g \in 1..Len(agentMemories') :
              \A k \in 1..Len(agentMemories'[g].memories) :
                  \E x \in 1..Len(memoryStore) :
                      /\ memoryStore[x].key.pipelineId = op'.pipelineId
                      /\ \E m \in 1..Len(memoryStore[x].memories) :
                            memoryStore[x].memories[m] = agentMemories'[g].memories[k]]_vars

\* the analysis for the id "analysis" runs on the memory a run of
\* "analysis-only" stored
C40_LongerIdIncluded ==
    /\ InAnalyze
    /\ op.pipelineId = "analysis"
    /\ pc = "pruneChat"
    /\ agentMemories # << >>
    /\ \A x \in 1..Len(memoryStore) : memoryStore[x].key.pipelineId # "analysis"
    /\ \E x \in 1..Len(memoryStore) :
          /\ memoryStore[x].key.pipelineId = "analysis-only"
          /\ memoryStore[x].memories # << >>
          /\ \E g \in 1..Len(agentMemories) :
                agentMemories[g].memories[1] = memoryStore[x].memories[1]

=============================================================================
